---- MODULE Spec2Model ----
(***************************************************************************)
(* Retry-and-redelivery subsystem of the RabbitMQ library: the Go consumer *)
(* loop with its three retry strategies and DLQ provisioning, the Go       *)
(* Connection channel manager, and the TypeScript RabbitMQConnection.      *)
(*                                                                         *)
(* The broker is modelled by its AMQP behaviour as the library uses it:    *)
(* queues with arguments, exchanges, bindings, per-queue TTL expiry with   *)
(* dead-lettering, unacknowledged deliveries, ack / nack.                  *)
(***************************************************************************)
EXTENDS Integers, Sequences, FiniteSets, TLC

\* ---------------------------------------------------------------- bounds
MaxAttemptsBound == 3   \* maxAttempts of a strategy ranges over 1..MaxAttemptsBound
MaxMsgs == 1            \* messages the producer publishes
MaxPresetCount == 1     \* x-retry-count a producer may preset ranges over maxAttempts-1..maxAttempts-1+MaxPresetCount
MaxDeliveries == 4      \* deliveries (delivery tags) handed to the consumer loop
MaxClock == 2           \* time.Now().Unix() ranges over 1..MaxClock
MaxFaults == 1          \* broker calls that fail in one behaviour

\* ---------------------------------------------------------------- names
\* The queue handed to ConsumeQueue.
Q == "Q"

DlqExchangeName(queue) == queue \o ".failed.dlx"
DlqQueueName(queue) == queue \o ".failed"
DlxName(queue) == queue \o ".dlx"
FixedWaitQueueName(queue) == queue \o ".wait"
ExpWaitQueueName(queue, i) == queue \o ".wait." \o ToString(i)

\* An amqp.Table: a function from a finite set of keys to typed values
\* <<type, value>>.  A nil table is the empty table.
EmptyTable == [k \in {} |-> <<"", 0>>]
Has(t, k) == k \in DOMAIN t
Put(t, k, v) == [x \in (DOMAIN t) \cup {k} |-> IF x = k THEN v ELSE t[x]]

MaxInt32 == 2147483647

\* int32(n + 1) for an int32 n: the conversion wraps at the width.
Int32Succ(n) == IF n = MaxInt32 THEN (-MaxInt32) - 1 ELSE n + 1

\* ------------------------------------------------------ retry metadata
\* GetRetryMetadata: each field is read with a type assertion; an absent
\* key, a nil table or a value of another type leaves the zero value.
GetRetryMetadata(headers) ==
  [AttemptCount |->
     IF Has(headers, "x-retry-count") /\ headers["x-retry-count"][1] = "int32"
     THEN headers["x-retry-count"][2] ELSE 0,
   OriginalQueue |->
     IF Has(headers, "x-original-queue") /\ headers["x-original-queue"][1] = "string"
     THEN headers["x-original-queue"][2] ELSE "",
   FirstFailedAt |->
     IF Has(headers, "x-first-failed-at") /\ headers["x-first-failed-at"][1] = "int64"
     THEN headers["x-first-failed-at"][2] ELSE 0]

\* Type under which HandleFailure stores x-retry-count.
RetryCountType_Int == "int64"
RetryCountType == "int32"

\* Attempt count HandleFailure stamps, from the count it read.
NextAttemptCount_Same(n) == n
NextAttemptCount(n) == Int32Succ(n)

\* Whether HandleFailure stamps x-first-failed-at.
StampFirstFailed_Always(metadata) == TRUE
StampFirstFailed(metadata) == metadata.FirstFailedAt = 0

\* The header update shared by the three HandleFailure methods.
StampHeaders(headers, routingKey, clock) ==
  LET metadata == GetRetryMetadata(headers)
      h1 == Put(headers, "x-retry-count",
                <<RetryCountType, NextAttemptCount(metadata.AttemptCount)>>)
      h2 == Put(h1, "x-original-queue", <<"string", routingKey>>)
  IN IF StampFirstFailed(metadata)
     THEN Put(h2, "x-first-failed-at", <<"int64", clock>>)
     ELSE h2

\* ShouldRetry, the same comparison in the three strategies.
ShouldRetry_Le(s, headers) == GetRetryMetadata(headers).AttemptCount <= s.maxAttempts
ShouldRetry(s, headers) == GetRetryMetadata(headers).AttemptCount < s.maxAttempts

RECURSIVE Pow(_, _)
Pow(b, e) == IF e = 0 THEN 1 ELSE b * Pow(b, e - 1)

\* GetDelay.  The float64 multiplier is the ratio multNum / multDen; the
\* product is truncated toward zero by int(delay).
GetDelay(s, attemptCount) ==
  CASE s.kind = "immediate" -> 0
    [] s.kind = "fixed" -> s.delayMs
    [] s.kind = "exponential" ->
         LET delay == (s.initialDelayMs * Pow(s.multNum, attemptCount))
                        \div Pow(s.multDen, attemptCount)
         IN IF delay > s.maxDelayMs THEN s.maxDelayMs ELSE delay
    [] OTHER -> 0

\* Wait queue HandleFailure publishes to: named after the delivery's
\* routing key, and for Exponential-Backoff after the current attempt count.
HandleFailureTarget_Next(s, routingKey, headers) ==
  IF s.kind = "fixed" THEN FixedWaitQueueName(routingKey)
  ELSE ExpWaitQueueName(routingKey, GetRetryMetadata(headers).AttemptCount + 1)
HandleFailureTarget(s, routingKey, headers) ==
  IF s.kind = "fixed" THEN FixedWaitQueueName(routingKey)
  ELSE ExpWaitQueueName(routingKey, GetRetryMetadata(headers).AttemptCount)

\* ------------------------------------------------------------- variables
VARIABLES
  opts,       \* ConsumeOptions of the ConsumeQueue call: strategy, enableDLQ, noAck
  qoptArgs,   \* options.QueueOptions.Args, which setupDLQ mutates
  broker,     \* [exchanges, qargs, qmsgs, bindings]: the broker's topology and queue contents
  unacked,    \* delivery tag -> message, the deliveries the broker holds unacknowledged
  lost,       \* ids of messages the broker dropped (unroutable, or rejected with no dead-letter route)
  chanState,  \* "open", "errored" (the broker raised a channel exception), "closed",
              \* "gone" (Connection.Close ran: the channel is closed and unset)
  consuming,  \* a consumer is registered on Q
  cq,         \* position of the ConsumeQueue call
  oplog,      \* topology calls ConsumeQueue issued, in order
  lp,         \* position of the consumer loop inside processMessage
  cur,        \* the amqp.Delivery processMessage holds
  dlv,        \* per delivery tag: what was delivered and what the loop did with it
  pub,        \* [ex, rk, headers] of the messages the producer published, in order
  now,        \* the last value time.Now().Unix() returned
  faults      \* broker calls that failed so far

retryVars == <<opts, qoptArgs, broker, unacked, lost, chanState, consuming, cq,
               oplog, lp, cur, dlv, pub, now, faults>>

NoStrategy == [kind |-> "none", maxAttempts |-> 0, delayMs |-> 0, initialDelayMs |-> 0,
               multNum |-> 1, multDen |-> 1, maxDelayMs |-> 0]

\* NewImmediateRetry, NewFixedDelayRetry, NewExponentialBackoff.
NewImmediateRetry(maxAttempts) ==
  [NoStrategy EXCEPT !.kind = "immediate", !.maxAttempts = maxAttempts]
NewFixedDelayRetry(maxAttempts, delayMs) ==
  [NoStrategy EXCEPT !.kind = "fixed", !.maxAttempts = maxAttempts, !.delayMs = delayMs]
NewExponentialBackoff(maxAttempts, initialDelayMs, multNum, multDen) ==
  [NoStrategy EXCEPT !.kind = "exponential", !.maxAttempts = maxAttempts,
                     !.initialDelayMs = initialDelayMs, !.multNum = multNum,
                     !.multDen = multDen, !.maxDelayMs = 300000]

\* NewExponentialBackoffWithMaxDelay.
NewExponentialBackoffWithMaxDelay(maxAttempts, initialDelayMs, multNum, multDen, maxDelayMs) ==
  [NewExponentialBackoff(maxAttempts, initialDelayMs, multNum, multDen)
     EXCEPT !.maxDelayMs = maxDelayMs]

Strategies ==
  {NoStrategy}
  \cup {NewImmediateRetry(n) : n \in 1..MaxAttemptsBound}
  \cup {NewFixedDelayRetry(n, 500) : n \in 1..MaxAttemptsBound}
  \cup {NewExponentialBackoff(n, 100, 2, 1) : n \in 1..MaxAttemptsBound}

NoDelivery == [tag |-> 0, id |-> 0, rk |-> "", headers |-> EmptyTable]

\* --------------------------------------------------------------- broker
EmptyBroker == [exchanges |-> {}, qargs |-> <<>>, qmsgs |-> <<>>, bindings |-> {}]

QueueExists(b, q) == q \in DOMAIN b.qargs

\* Queues a publish to exchange ex with routing key rk reaches.  The default
\* exchange "" routes to the queue named rk; the exchanges declared here are
\* direct exchanges.
Route(b, ex, rk) ==
  IF ex = "" THEN (IF QueueExists(b, rk) THEN {rk} ELSE {})
  ELSE IF ex \in b.exchanges
       THEN {bd[1] : bd \in {x \in b.bindings : x[3] = ex /\ x[2] = rk}}
       ELSE {}

Enqueue(b, targets, m) ==
  [b EXCEPT !.qmsgs = [q \in DOMAIN b.qmsgs |->
                         IF q \in targets THEN Append(b.qmsgs[q], m) ELSE b.qmsgs[q]]]

\* A message leaves queue q dead: it is republished to q's dead-letter
\* exchange with q's dead-letter routing key, or dropped when q has none.
DeadLetterTargets(b, q, m) ==
  IF Has(b.qargs[q], "x-dead-letter-exchange")
  THEN Route(b, b.qargs[q]["x-dead-letter-exchange"][2],
             IF Has(b.qargs[q], "x-dead-letter-routing-key")
             THEN b.qargs[q]["x-dead-letter-routing-key"][2] ELSE m.rk)
  ELSE {}

DeadLetter(b, q, m) ==
  Enqueue(b, DeadLetterTargets(b, q, m),
          [m EXCEPT !.rk = IF Has(b.qargs[q], "x-dead-letter-routing-key")
                           THEN b.qargs[q]["x-dead-letter-routing-key"][2] ELSE m.rk])

\* Topology calls.  A call is [op, name, args, key, ex].
ExchangeDeclareOp(name) ==
  [op |-> "ExchangeDeclare", name |-> name, args |-> EmptyTable, key |-> "", ex |-> ""]
QueueDeclareOp(name, args) ==
  [op |-> "QueueDeclare", name |-> name, args |-> args, key |-> "", ex |-> ""]
QueueBindOp(name, key, ex) ==
  [op |-> "QueueBind", name |-> name, args |-> EmptyTable, key |-> key, ex |-> ex]

\* Variant: the broker refuses every redeclaration of a queue.
OpOk_NoRedeclare(b, o) ==
  CASE o.op = "QueueDeclare" -> ~QueueExists(b, o.name)
    [] o.op = "QueueBind" -> QueueExists(b, o.name) /\ o.ex \in b.exchanges
    [] OTHER -> TRUE

\* The broker refuses the redeclaration of a queue under other arguments
\* (PRECONDITION_FAILED) and a binding whose queue or exchange is missing.
OpOk(b, o) ==
  CASE o.op = "QueueDeclare" -> (~QueueExists(b, o.name)) \/ b.qargs[o.name] = o.args
    [] o.op = "QueueBind" -> QueueExists(b, o.name) /\ o.ex \in b.exchanges
    [] OTHER -> TRUE

ApplyOp(b, o) ==
  CASE o.op = "ExchangeDeclare" -> [b EXCEPT !.exchanges = @ \cup {o.name}]
    [] o.op = "QueueDeclare" ->
         IF QueueExists(b, o.name) THEN b
         ELSE [b EXCEPT !.qargs = @ @@ (o.name :> o.args),
                        !.qmsgs = @ @@ (o.name :> <<>>)]
    [] o.op = "QueueBind" -> [b EXCEPT !.bindings = @ \cup {<<o.name, o.key, o.ex>>}]
    [] OTHER -> b

\* Issue ops[i..] in order; the call at index failAt fails in transit
\* (0: none does).  The first failing call ends the sequence.
RECURSIVE RunOps(_, _, _, _)
RunOps(b, ops, i, failAt) ==
  IF i > Len(ops) THEN [b |-> b, ok |-> TRUE, issued |-> Len(ops)]
  ELSE IF i = failAt \/ ~OpOk(b, ops[i]) THEN [b |-> b, ok |-> FALSE, issued |-> i]
  ELSE RunOps(ApplyOp(b, ops[i]), ops, i + 1, failAt)

\* -------------------------------------------------------- topology setup
\* setupDLQ: the three topology calls, in order.
SetupDLQOps(originalQueue) ==
  <<ExchangeDeclareOp(DlqExchangeName(originalQueue)),
    QueueDeclareOp(DlqQueueName(originalQueue), EmptyTable),
    QueueBindOp(DlqQueueName(originalQueue), DlqQueueName(originalQueue),
                DlqExchangeName(originalQueue))>>

\* Variant: the options are left as they are.
DLQArgs_None(args, originalQueue) == args

\* setupDLQ's last step: point the original queue's options at the DLQ.
DLQArgs(args, originalQueue) ==
  Put(Put(args, "x-dead-letter-exchange", <<"string", DlqExchangeName(originalQueue)>>),
      "x-dead-letter-routing-key", <<"string", DlqQueueName(originalQueue)>>)

\* Arguments of a wait queue: dead-letter back to the original queue after ttl.
WaitQueueArgs(originalQueue, ttl) ==
  Put(Put(Put(EmptyTable,
      "x-dead-letter-exchange", <<"string", DlxName(originalQueue)>>),
      "x-dead-letter-routing-key", <<"string", originalQueue>>),
      "x-message-ttl", <<"int32", ttl>>)

\* Names of the wait queues Setup declares.
WaitQueueNames(s, originalQueue) ==
  CASE s.kind = "fixed" -> <<FixedWaitQueueName(originalQueue)>>
    [] s.kind = "exponential" ->
         [i \in 1..s.maxAttempts |-> ExpWaitQueueName(originalQueue, i - 1)]
    [] OTHER -> <<>>

\* Variant of Setup: Exponential-Backoff declares the first wait queue only.
StrategySetupOps_OneQueue(s, originalQueue) ==
  CASE s.kind = "fixed" ->
         <<ExchangeDeclareOp(DlxName(originalQueue)),
           QueueDeclareOp(FixedWaitQueueName(originalQueue),
                          WaitQueueArgs(originalQueue, s.delayMs)),
           QueueBindOp(originalQueue, originalQueue, DlxName(originalQueue))>>
    [] s.kind = "exponential" ->
         <<ExchangeDeclareOp(DlxName(originalQueue)),
           QueueDeclareOp(ExpWaitQueueName(originalQueue, 0),
                          WaitQueueArgs(originalQueue, GetDelay(s, 0))),
           QueueBindOp(originalQueue, originalQueue, DlxName(originalQueue))>>
    [] OTHER -> <<>>

\* Setup of a strategy: the topology calls, in order.  Immediate issues none.
StrategySetupOps(s, originalQueue) ==
  CASE s.kind = "fixed" ->
         <<ExchangeDeclareOp(DlxName(originalQueue)),
           QueueDeclareOp(FixedWaitQueueName(originalQueue),
                          WaitQueueArgs(originalQueue, s.delayMs)),
           QueueBindOp(originalQueue, originalQueue, DlxName(originalQueue))>>
    [] s.kind = "exponential" ->
         <<ExchangeDeclareOp(DlxName(originalQueue))>>
         \o [i \in 1..s.maxAttempts |->
               QueueDeclareOp(ExpWaitQueueName(originalQueue, i - 1),
                              WaitQueueArgs(originalQueue, GetDelay(s, i - 1)))]
         \o <<QueueBindOp(originalQueue, originalQueue, DlxName(originalQueue))>>
    [] OTHER -> <<>>

\* ---------------------------------------------------------- ConsumeQueue
\* Order of the steps of ConsumeQueue after the channel is resolved.
CQOrder_ConsumeFirst == <<"dlq", "declare", "consume", "setup">>
CQOrder_DeclareFirst == <<"declare", "dlq", "setup", "consume">>
CQOrder == <<"dlq", "declare", "setup", "consume">>

\* Whether the options ask for the step.
StepWanted(o, step) ==
  CASE step = "dlq" -> o.enableDLQ
    [] step = "setup" -> o.strategy.kind # "none"
    [] OTHER -> TRUE

RECURSIVE StepFrom(_, _)
StepFrom(o, i) ==
  IF i > Len(CQOrder) THEN "started"
  ELSE IF StepWanted(o, CQOrder[i]) THEN CQOrder[i]
  ELSE StepFrom(o, i + 1)

StepIndex(step) == CHOOSE i \in 1..Len(CQOrder) : CQOrder[i] = step
FirstStep(o) == StepFrom(o, 1)
NextStep(o, step) == StepFrom(o, StepIndex(step) + 1)

\* Positions of a failing call a step may draw: 0 (none) or, while the fault
\* budget lasts, any of its n calls.
FailPoints(n) == IF faults < MaxFaults THEN 0..n ELSE {0}

\* Where ConsumeQueue goes after a step: on, or out with the error.
AfterStep_Ignore(o, step, ok) == NextStep(o, step)
AfterStep(o, step, ok) == IF ok THEN NextStep(o, step) ELSE "error"

\* A step of ConsumeQueue made of topology calls: issue them; any failure
\* makes ConsumeQueue return the error.
CQRun(step, ops, failAt, argsOnSuccess) ==
  LET r == RunOps(broker, ops, 1, failAt) IN
  /\ cq = step
  /\ broker' = r.b
  /\ oplog' = oplog \o SubSeq(ops, 1, r.issued)
  /\ faults' = IF failAt # 0 /\ r.issued = failAt /\ ~r.ok THEN faults + 1 ELSE faults
  /\ qoptArgs' = IF r.ok THEN argsOnSuccess ELSE qoptArgs
  /\ cq' = AfterStep(opts, step, r.ok)
  /\ UNCHANGED <<opts, unacked, lost, chanState, consuming, lp, cur, dlv, pub, now>>

\* if options.EnableDLQ { setupDLQ(channel, queue, options.QueueOptions) }
CQSetupDLQ ==
  \E failAt \in FailPoints(Len(SetupDLQOps(Q))) :
    CQRun("dlq", SetupDLQOps(Q), failAt, DLQArgs(qoptArgs, Q))

\* channel.QueueDeclare(queue, ..., options.QueueOptions.Args)
CQQueueDeclare ==
  \E failAt \in FailPoints(1) :
    CQRun("declare", <<QueueDeclareOp(Q, qoptArgs)>>, failAt, qoptArgs)

\* if options.RetryStrategy != nil { options.RetryStrategy.Setup(channel, queue) }
CQStrategySetup ==
  \E failAt \in FailPoints(Len(StrategySetupOps(opts.strategy, Q))) :
    CQRun("setup", StrategySetupOps(opts.strategy, Q), failAt, qoptArgs)

\* channel.Consume(queue, ...), then the goroutine ranging over msgs.
CQConsume ==
  /\ cq = "consume"
  /\ \E ok \in {TRUE} \cup {f \in {FALSE} : faults < MaxFaults} :
       /\ consuming' = (ok /\ QueueExists(broker, Q))
       /\ faults' = IF ok THEN faults ELSE faults + 1
       /\ cq' = IF ok /\ QueueExists(broker, Q) THEN NextStep(opts, "consume") ELSE "error"
  /\ oplog' = Append(oplog, [op |-> "Consume", name |-> Q, args |-> EmptyTable,
                             key |-> "", ex |-> ""])
  /\ UNCHANGED <<opts, qoptArgs, broker, unacked, lost, chanState, lp, cur, dlv, pub, now>>

\* ------------------------------------------------------ ack and nack
\* What the broker does with an acknowledgment for delivery tag t.  An
\* acknowledgment of a tag the broker does not hold (already settled, or
\* delivered under no-ack) is a channel exception: the broker closes the
\* channel.  kind is "ack", "requeue" (nack, requeue) or "reject" (nack, no requeue).
BrokerSettle(b, un, t, kind) ==
  IF t \notin DOMAIN un THEN b
  ELSE CASE kind = "requeue" -> [b EXCEPT !.qmsgs[Q] = <<un[t]>> \o @]
         [] kind = "reject" -> DeadLetter(b, Q, un[t])
         [] OTHER -> b

Without(un, t) == [x \in (DOMAIN un) \ {t} |-> un[x]]

\* delivery.Ack / delivery.Nack on the delivery the loop holds; d is the
\* delivery record with the step's other updates.
Settle(kind, d) ==
  LET t == cur.tag
      live == chanState = "open"
      known == t \in DOMAIN unacked
  IN
  /\ dlv' = [dlv EXCEPT ![t] = [d EXCEPT !.acks = Append(@, kind)]]
  /\ broker' = IF live THEN BrokerSettle(broker, unacked, t, kind) ELSE broker
  /\ unacked' = IF live /\ known THEN Without(unacked, t) ELSE unacked
  /\ lost' = IF live /\ known /\ kind = "reject"
                /\ DeadLetterTargets(broker, Q, unacked[t]) = {}
             THEN lost \cup {unacked[t].id} ELSE lost
  /\ chanState' = IF live /\ ~known THEN "errored" ELSE chanState

\* The goroutine after processMessage returned, with or without an error:
\* it logs and takes the next delivery.
AfterProcessMessage_Return == "stopped"
AfterProcessMessage == "idle"

\* The consumer's channel is closed.
ChanDown == chanState \in {"closed", "gone"}

\* ---------------------------------------------------------- consumer loop
\* Variant: a goroutine per delivery (go processMessage(...)).
TakesNext_Concurrent(pos) == TRUE
\* for msg := range msgs { processMessage(...) }: the goroutine receives the
\* next delivery once processMessage has returned.
TakesNext(pos) == pos = "idle"

\* for msg := range msgs: the broker hands the head of Q to the consumer and
\* the goroutine calls processMessage on it.
Deliver ==
  /\ consuming
  /\ ~ChanDown
  /\ TakesNext(lp)
  /\ QueueExists(broker, Q)
  /\ broker.qmsgs[Q] # <<>>
  /\ Len(dlv) < MaxDeliveries
  /\ LET m == Head(broker.qmsgs[Q])
         t == Len(dlv) + 1
     IN
     /\ broker' = [broker EXCEPT !.qmsgs[Q] = Tail(@)]
     /\ unacked' = IF opts.noAck THEN unacked ELSE unacked @@ (t :> m)
     /\ cur' = [tag |-> t, id |-> m.id, rk |-> m.rk, headers |-> m.headers]
     /\ dlv' = Append(dlv, [id |-> m.id, headers |-> m.headers, res |-> "running",
                            retry |-> "none", target |-> "", sent |-> EmptyTable,
                            acks |-> <<>>])
  /\ lp' = "received"
  /\ UNCHANGED <<opts, qoptArgs, lost, chanState, consuming, cq, oplog, pub, now, faults>>

\* processMessage: conn.GetChannel returned the channel; the handler is called.
ProcessStart ==
  /\ lp = "received"
  /\ chanState # "gone"
  /\ lp' = "handler"
  /\ UNCHANGED <<opts, qoptArgs, broker, unacked, lost, chanState, consuming, cq, oplog,
                 cur, dlv, pub, now, faults>>

\* processMessage: conn.GetChannel returned an error; processMessage
\* returns it without calling the handler and without ack or nack.
ProcessSkip ==
  /\ lp = "received"
  /\ chanState = "gone"
  /\ lp' = AfterProcessMessage
  /\ cur' = NoDelivery
  /\ dlv' = [dlv EXCEPT ![cur.tag].res = "skipped"]
  /\ UNCHANGED <<opts, qoptArgs, broker, unacked, lost, chanState, consuming, cq, oplog,
                 pub, now, faults>>

\* The handler returns nil: ack unless NoAck.
HandlerSuccess ==
  /\ lp = "handler"
  /\ lp' = AfterProcessMessage
  /\ cur' = NoDelivery
  /\ IF opts.noAck
     THEN /\ dlv' = [dlv EXCEPT ![cur.tag].res = "ok"]
          /\ UNCHANGED <<broker, unacked, lost, chanState>>
     ELSE Settle("ack", [dlv[cur.tag] EXCEPT !.res = "ok"])
  /\ UNCHANGED <<opts, qoptArgs, consuming, cq, oplog, pub, now, faults>>

\* The handler returns an error.
HandlerFailure ==
  /\ lp = "handler"
  /\ lp' = "failed"
  /\ dlv' = [dlv EXCEPT ![cur.tag].res = "err"]
  /\ UNCHANGED <<opts, qoptArgs, broker, unacked, lost, chanState, consuming, cq, oplog,
                 cur, pub, now, faults>>

\* The test processMessage makes on a handler error.
WantsRetry_Always(o, delivery) == o.strategy.kind # "none"
\* Variant: the attempt count is a counter kept across the messages, the
\* number of failures handled so far.
WantsRetry_Shared(o, delivery) ==
  /\ o.strategy.kind # "none"
  /\ Cardinality({t \in DOMAIN dlv : dlv[t].retry # "none"}) < o.strategy.maxAttempts
WantsRetry(o, delivery) ==
  o.strategy.kind # "none" /\ ShouldRetry(o.strategy, delivery.headers)

\* processMessage after HandleFailure returned: on to the ack when it
\* returned nil, to the nack without requeue when it returned an error.
AfterHandleFailure_Ack(ok) == "retried"
AfterHandleFailure(ok) == IF ok THEN "retried" ELSE "retryFailed"

\* HandleFailure of Fixed-Delay and Exponential-Backoff: stamp the headers of
\* the delivery and publish a copy to the wait queue through the default
\* exchange, mandatory = false.
HandleFailurePublish ==
  /\ lp = "failed"
  /\ WantsRetry(opts, cur)
  /\ opts.strategy.kind \in {"fixed", "exponential"}
  /\ \E clock \in now..MaxClock :
     LET target == HandleFailureTarget(opts.strategy, cur.rk, cur.headers)
         hdrs == StampHeaders(cur.headers, cur.rk, clock)
         copy == [id |-> cur.id, rk |-> target, headers |-> hdrs]
     IN \E ok \in {x \in BOOLEAN : IF x THEN ~ChanDown
                                      ELSE ChanDown \/ faults < MaxFaults} :
         /\ cur' = [cur EXCEPT !.headers = hdrs]
         /\ now' = clock
         /\ faults' = IF ok \/ ChanDown THEN faults ELSE faults + 1
         /\ lp' = AfterHandleFailure(ok)
         /\ broker' = IF ok /\ chanState = "open"
                      THEN Enqueue(broker, Route(broker, "", target), copy) ELSE broker
         /\ lost' = IF ok /\ chanState = "open" /\ Route(broker, "", target) = {}
                    THEN lost \cup {cur.id} ELSE lost
         /\ dlv' = [dlv EXCEPT ![cur.tag].retry = IF ok THEN "ok" ELSE "err",
                               ![cur.tag].target = target,
                               ![cur.tag].sent = hdrs]
  /\ UNCHANGED <<opts, qoptArgs, unacked, chanState, consuming, cq, oplog, pub>>

\* HandleFailure of Immediate: stamp the headers of the delivery the loop
\* holds, then delivery.Nack(false, true).
HandleFailureImmediate ==
  /\ lp = "failed"
  /\ WantsRetry(opts, cur)
  /\ opts.strategy.kind = "immediate"
  /\ \E clock \in now..MaxClock :
     LET hdrs == StampHeaders(cur.headers, cur.rk, clock) IN
     /\ cur' = [cur EXCEPT !.headers = hdrs]
     /\ now' = clock
     /\ Settle("requeue", [dlv[cur.tag] EXCEPT
                             !.retry = IF ChanDown THEN "err" ELSE "ok",
                             !.sent = hdrs])
  /\ lp' = AfterHandleFailure(~ChanDown)
  /\ UNCHANGED <<opts, qoptArgs, consuming, cq, oplog, pub, faults>>

\* HandleFailure returned nil: return delivery.Ack(false).
RetryAck ==
  /\ lp = "retried"
  /\ Settle("ack", dlv[cur.tag])
  /\ lp' = AfterProcessMessage
  /\ cur' = NoDelivery
  /\ UNCHANGED <<opts, qoptArgs, consuming, cq, oplog, pub, now, faults>>

\* HandleFailure returned an error: return delivery.Nack(false, false).
RetryFailedNack ==
  /\ lp = "retryFailed"
  /\ Settle("reject", dlv[cur.tag])
  /\ lp' = AfterProcessMessage
  /\ cur' = NoDelivery
  /\ UNCHANGED <<opts, qoptArgs, consuming, cq, oplog, pub, now, faults>>

\* No strategy, or ShouldRetry is false: return delivery.Nack(false, false).
NoRetryNack ==
  /\ lp = "failed"
  /\ ~WantsRetry(opts, cur)
  /\ Settle("reject", dlv[cur.tag])
  /\ lp' = AfterProcessMessage
  /\ cur' = NoDelivery
  /\ UNCHANGED <<opts, qoptArgs, consuming, cq, oplog, pub, now, faults>>

\* ------------------------------------------------------------ environment
\* Headers a producer may attach: none, or a preset x-retry-count around the
\* strategy's maxAttempts.
ProducerHeaders ==
  {EmptyTable}
  \cup {Put(EmptyTable, "x-retry-count", <<"int32", c>>) :
          c \in {x \in (opts.strategy.maxAttempts - 1)
                         ..(opts.strategy.maxAttempts - 1 + MaxPresetCount) : x >= 0}}

\* PublishToQueue(conn, Q, payload, options) with the default options: a
\* publish to the default exchange, routing key Q, mandatory = false.
PublishNth(limit) ==
  /\ Len(pub) < limit
  /\ \E h \in ProducerHeaders :
       LET m == [id |-> Len(pub) + 1, rk |-> Q, headers |-> h] IN
       /\ broker' = Enqueue(broker, Route(broker, "", Q), m)
       /\ lost' = IF Route(broker, "", Q) = {} THEN lost \cup {m.id} ELSE lost
       /\ pub' = Append(pub, [ex |-> "", rk |-> Q, headers |-> h])
  /\ UNCHANGED <<opts, qoptArgs, unacked, chanState, consuming, cq, oplog, lp, cur, dlv,
                 now, faults>>

Publish == PublishNth(MaxMsgs)

\* A further PublishToQueue by a second producer.
PublishAnother == Len(pub) >= MaxMsgs /\ PublishNth(MaxMsgs + 1)

\* An exchange of the application and the key under which it binds Q to it.
AppExchange == "E"
AppKey == "K"

\* PublishToExchange(conn, E, K, payload, nil, nil): declare the exchange,
\* then publish to it with routing key K, no headers, mandatory = false.
PublishExchange ==
  /\ Len(pub) < MaxMsgs
  /\ LET m == [id |-> Len(pub) + 1, rk |-> AppKey, headers |-> EmptyTable]
         b1 == ApplyOp(broker, ExchangeDeclareOp(AppExchange))
     IN
     /\ broker' = Enqueue(b1, Route(b1, AppExchange, AppKey), m)
     /\ lost' = IF Route(b1, AppExchange, AppKey) = {} THEN lost \cup {m.id} ELSE lost
     /\ pub' = Append(pub, [ex |-> AppExchange, rk |-> AppKey, headers |-> EmptyTable])
  /\ UNCHANGED <<opts, qoptArgs, unacked, chanState, consuming, cq, oplog, lp, cur, dlv,
                 now, faults>>

\* The message at the head of a queue declared with x-message-ttl expires and
\* is dead-lettered.
Expire ==
  \E w \in DOMAIN broker.qmsgs :
    /\ Has(broker.qargs[w], "x-message-ttl")
    /\ broker.qmsgs[w] # <<>>
    /\ LET m == Head(broker.qmsgs[w])
           b1 == [broker EXCEPT !.qmsgs[w] = Tail(@)]
       IN /\ broker' = DeadLetter(b1, w, m)
          /\ lost' = IF DeadLetterTargets(b1, w, m) = {} THEN lost \cup {m.id} ELSE lost
    /\ UNCHANGED <<opts, qoptArgs, unacked, chanState, consuming, cq, oplog, lp, cur, dlv,
                   pub, now, faults>>

RECURSIVE Requeued(_, _)
\* The unacknowledged messages, lowest delivery tag first.
Requeued(un, tags) ==
  IF tags = {} THEN <<>>
  ELSE LET t == CHOOSE x \in tags : \A y \in tags : x <= y
       IN <<un[t]>> \o Requeued(un, tags \ {t})

\* The channel exception reaches the client: the channel is closed, its
\* consumer is gone and the broker requeues what the channel held unacknowledged.
ChannelClosed ==
  /\ chanState = "errored"
  /\ chanState' = "closed"
  /\ consuming' = FALSE
  /\ broker' = IF QueueExists(broker, Q)
               THEN [broker EXCEPT !.qmsgs[Q] = Requeued(unacked, DOMAIN unacked) \o @]
               ELSE broker
  /\ unacked' = <<>>
  /\ UNCHANGED <<opts, qoptArgs, lost, cq, oplog, lp, cur, dlv, pub, now, faults>>

\* The application calls Connection.Close while the consumer runs: the
\* channel is closed and unset, the consumer is gone and the broker
\* requeues what the channel held unacknowledged.
ConnectionClose ==
  /\ cq = "started"
  /\ chanState # "gone"
  /\ chanState' = "gone"
  /\ consuming' = FALSE
  /\ broker' = IF QueueExists(broker, Q)
               THEN [broker EXCEPT !.qmsgs[Q] = Requeued(unacked, DOMAIN unacked) \o @]
               ELSE broker
  /\ unacked' = <<>>
  /\ UNCHANGED <<opts, qoptArgs, lost, cq, oplog, lp, cur, dlv, pub, now, faults>>

\* ---------------------------------------------------------- specification
\* The broker before ConsumeQueue: empty, or with Q declared already.
Brokers0 == {EmptyBroker, ApplyOp(EmptyBroker, QueueDeclareOp(Q, EmptyTable))}

\* The broker with Q declared by the application and bound to its exchange.
BoundBroker ==
  RunOps(EmptyBroker, <<QueueDeclareOp(Q, EmptyTable), ExchangeDeclareOp(AppExchange),
                        QueueBindOp(Q, AppKey, AppExchange)>>, 1, 0).b

\* The state at the call of ConsumeQueue, the broker being one of brokers.
RetryStartWith(strategies, brokers) ==
  /\ opts \in [strategy : strategies, enableDLQ : BOOLEAN, noAck : BOOLEAN]
  /\ qoptArgs = EmptyTable
  /\ broker \in brokers
  /\ unacked = <<>>
  /\ lost = {}
  /\ chanState = "open"
  /\ consuming = FALSE
  /\ cq = FirstStep(opts)
  /\ oplog = <<>>
  /\ lp = "idle"
  /\ cur = NoDelivery
  /\ dlv = <<>>
  /\ pub = <<>>
  /\ now = 1
  /\ faults = 0

RetryStart(brokers) == RetryStartWith(Strategies, brokers)

RetryInit == RetryStart(Brokers0)

RetryNext ==
  \/ CQSetupDLQ
  \/ CQQueueDeclare
  \/ CQStrategySetup
  \/ CQConsume
  \/ Deliver
  \/ ProcessStart
  \/ ProcessSkip
  \/ HandlerSuccess
  \/ HandlerFailure
  \/ HandleFailurePublish
  \/ HandleFailureImmediate
  \/ RetryAck
  \/ RetryFailedNack
  \/ NoRetryNack
  \/ Publish
  \/ Expire
  \/ ChannelClosed
  \/ ConnectionClose


\* ================================================== Go Connection manager
NCallers == 2           \* goroutines (Go) or async callers (TypeScript) using one connection
MaxCalls == 3           \* operations started on one connection in one behaviour

Callers == 1..NCallers

\* Channel IDs callers ask for: "" is the default channel.
ChannelIDs == {"", "a", "default"}

\* The channelID a close handler is set up with: "default" for the default
\* channel, the ID asked for otherwise.
HandlerID(id) == IF id = "" THEN "default" ELSE id

VARIABLES
  gPrefetch,  \* config.Prefetch
  gConn,      \* c.conn: 0 for nil, else the number of the link
  gDefault,   \* c.defaultChannel: 0 for nil, else the number of the channel
  gChannels,  \* c.channels: channel ID -> number of the channel
  gTags,      \* c.consumerTags: queue -> consumer tag
  gClosed,    \* c.closed
  gLinks,     \* the links dialed, in order: TRUE while open
  gCh,        \* the broker channels created, in order: [id, link, open]
  gObs,       \* close observers still waiting: <<channel, channelID>>
  gPc,        \* per caller: "idle", or "lock" between the two sections of GetChannel
  gReq,       \* per caller: the channel ID of its GetChannel call
  gRet,       \* returns of GetChannel so far: <<channelID, channel (0: error), connected>>
  gCalls,     \* operations started so far
  gFaults,    \* broker calls that failed so far
  gLast,      \* the last Connect or Close that returned: [n, op, err, log, dialed]
  gCloseErrs  \* the errors returned by the Close that set c.closed

goVars == <<gPrefetch, gConn, gDefault, gChannels, gTags, gClosed, gLinks, gCh, gObs,
            gPc, gReq, gRet, gCalls, gFaults, gLast, gCloseErrs>>

\* A resource a call closes or fails on: the link, the default channel, a
\* named channel, or a step of Connect.
Target(kind, id) == [kind |-> kind, id |-> id]

\* No Connect or Close has returned yet.
NoCall == [n |-> 0, op |-> "none", err |-> <<>>, log |-> <<>>, dialed |-> FALSE]

\* NewConnection.
GoInit ==
  /\ gPrefetch \in {0, 10}
  /\ gConn = 0
  /\ gDefault = 0
  /\ gChannels = <<>>
  /\ gTags = <<>>
  /\ gClosed = FALSE
  /\ gLinks = <<>>
  /\ gCh = <<>>
  /\ gObs = {}
  /\ gPc = [c \in Callers |-> "idle"]
  /\ gReq = [c \in Callers |-> ""]
  /\ gRet = {}
  /\ gCalls = 0
  /\ gFaults = 0
  /\ gLast = NoCall
  /\ gCloseErrs = <<>>

\* Outcomes a broker call may have: success, or failure while the budget lasts.
Outcomes(f) == {TRUE} \cup {x \in {FALSE} : f < MaxFaults}

NewChannel(id, link) == [id |-> id, link |-> link, open |-> TRUE]

\* channel.Close(): the channels in set ks are closed.
CloseChannels(chs, ks) ==
  [k \in 1..Len(chs) |-> IF k \in ks THEN [chs[k] EXCEPT !.open = FALSE] ELSE chs[k]]

\* The test Connect makes before dialing.
AlreadyConnected_Never == FALSE
AlreadyConnected == gConn # 0 /\ gDefault # 0

\* Whether the link and channel a Connect call opened are open when it
\* returns: a failed call closes them before it returns.
OpenAfterConnect_Leaked(ok) == TRUE
OpenAfterConnect(ok) == ok

\* IsConnected, under c.mu.RLock().
IsConnected == gConn # 0 /\ gDefault # 0 /\ ~gClosed

\* Connect, under c.mu.Lock() from entry to return.
\* dial, chan, qos: whether amqp.Dial, conn.Channel and channel.Qos succeed.
Connect(c) ==
  /\ gPc[c] = "idle"
  /\ gCalls < MaxCalls
  /\ gCalls' = gCalls + 1
  /\ IF AlreadyConnected
     THEN /\ gLast' = [n |-> gCalls + 1, op |-> "Connect", err |-> <<>>, log |-> <<>>,
                       dialed |-> FALSE]
          /\ UNCHANGED <<gConn, gDefault, gLinks, gCh, gObs, gFaults>>
     ELSE \E dial, chan, qos \in Outcomes(gFaults) :
            LET link == Len(gLinks) + 1
                ch == Len(gCh) + 1
                useQos == gPrefetch > 0
                ok == dial /\ chan /\ (useQos => qos)
            IN
            /\ (~dial) => (chan /\ qos)
            /\ (~chan) => qos
            /\ (~useQos) => qos
            /\ gFaults' = IF ok THEN gFaults ELSE gFaults + 1
            /\ gLinks' = IF dial THEN Append(gLinks, OpenAfterConnect(ok)) ELSE gLinks
            /\ gCh' = IF dial /\ chan
                      THEN Append(gCh, [NewChannel("", link)
                                          EXCEPT !.open = OpenAfterConnect(ok)])
                      ELSE gCh
            /\ gConn' = IF ok THEN link ELSE gConn
            /\ gDefault' = IF ok THEN ch ELSE gDefault
            /\ gObs' = IF ok THEN gObs \cup {<<ch, HandlerID("")>>} ELSE gObs
            /\ gLast' = [n |-> gCalls + 1, op |-> "Connect",
                         err |-> IF ~dial THEN <<Target("dial", "")>>
                                 ELSE IF ~chan THEN <<Target("channel", "")>>
                                 ELSE IF ~ok THEN <<Target("qos", "")>>
                                 ELSE <<>>,
                         log |-> IF ~dial THEN <<>>
                                 ELSE IF ~chan THEN <<Target("link", "")>>
                                 ELSE IF ~ok
                                 THEN <<Target("default", ""), Target("link", "")>>
                                 ELSE <<>>,
                         dialed |-> dial]
  /\ UNCHANGED <<gPrefetch, gChannels, gTags, gClosed, gPc, gReq, gRet, gCloseErrs>>

\* GetChannel(""): the default channel, under c.mu.RLock().
GetDefaultChannel(c) ==
  /\ gPc[c] = "idle"
  /\ gCalls < MaxCalls
  /\ gCalls' = gCalls + 1
  /\ gRet' = gRet \cup {<<"", gDefault, gConn # 0>>}
  /\ UNCHANGED <<gPrefetch, gConn, gDefault, gChannels, gTags, gClosed, gLinks, gCh,
                 gObs, gPc, gReq, gFaults, gLast, gCloseErrs>>

\* GetChannel(id), first section: the lookup under c.mu.RLock().
GetChannelCheck(c) ==
  /\ gPc[c] = "idle"
  /\ gCalls < MaxCalls
  /\ gCalls' = gCalls + 1
  /\ \E id \in ChannelIDs \ {""} :
       /\ gReq' = [gReq EXCEPT ![c] = id]
       /\ IF id \in DOMAIN gChannels
          THEN /\ gRet' = gRet \cup {<<id, gChannels[id], gConn # 0>>}
               /\ UNCHANGED gPc
          ELSE /\ gPc' = [gPc EXCEPT ![c] = "lock"]
               /\ UNCHANGED gRet
  /\ UNCHANGED <<gPrefetch, gConn, gDefault, gChannels, gTags, gClosed, gLinks, gCh,
                 gObs, gFaults, gLast, gCloseErrs>>

\* The second lookup, made after c.mu.Lock() is acquired.
DoubleCheck_Skipped(id) == FALSE
DoubleCheck(id) == id \in DOMAIN gChannels

\* GetChannel(id), second section, under c.mu.Lock(): look again, then
\* create the channel, set QoS, register the close observer and cache it.
GetChannelCreate(c) ==
  /\ gPc[c] = "lock"
  /\ gPc' = [gPc EXCEPT ![c] = "idle"]
  /\ LET id == gReq[c] IN
     IF DoubleCheck(id)
     THEN /\ gRet' = gRet \cup {<<id, gChannels[id], gConn # 0>>}
          /\ UNCHANGED <<gChannels, gCh, gObs, gFaults>>
     ELSE IF gConn = 0
     THEN /\ gRet' = gRet \cup {<<id, 0, FALSE>>}
          /\ UNCHANGED <<gChannels, gCh, gObs, gFaults>>
     ELSE \E chan, qos \in Outcomes(gFaults) :
            LET ch == Len(gCh) + 1
                useQos == gPrefetch > 0
                ok == chan /\ (useQos => qos)
            IN
            /\ (~chan) => qos
            /\ (~useQos) => qos
            /\ gFaults' = IF ok THEN gFaults ELSE gFaults + 1
            /\ gCh' = IF chan
                      THEN Append(gCh, [NewChannel(id, gConn) EXCEPT !.open = ok])
                      ELSE gCh
            /\ gObs' = IF ok THEN gObs \cup {<<ch, HandlerID(id)>>} ELSE gObs
            /\ gChannels' = IF ok THEN Put(gChannels, id, ch) ELSE gChannels
            /\ gRet' = gRet \cup {<<id, IF ok THEN ch ELSE 0, TRUE>>}
  /\ UNCHANGED <<gPrefetch, gConn, gDefault, gTags, gClosed, gLinks, gReq, gCalls,
                 gLast, gCloseErrs>>

\* The orders in which a range loop may visit the keys of a map.
Orders(S) ==
  {o \in [1..Cardinality(S) -> S] : \A i, j \in DOMAIN o : i # j => o[i] # o[j]}

\* The resources Close goes through, for one order of the named channels:
\* the named channels, the default channel if set, the link if set.
CloseTargets(order) ==
  [i \in DOMAIN order |-> Target("named", order[i])]
  \o (IF gDefault # 0 THEN <<Target("default", "")>> ELSE <<>>)
  \o (IF gConn # 0 THEN <<Target("link", "")>> ELSE <<>>)

\* Whether a resource is open: closing one that is not returns an error.
TargetOpen(t) ==
  CASE t.kind = "link" -> gLinks[gConn]
    [] t.kind = "default" -> gCh[gDefault].open
    [] OTHER -> gCh[gChannels[t.id]].open

\* The close calls Close issues, given the ones that fail: an error is
\* appended to errs and the next resource is closed.
CloseCalls_StopAtError(targets, failed) ==
  IF failed = {} THEN targets
  ELSE SubSeq(targets, 1, CHOOSE i \in failed : \A j \in failed : i <= j)
CloseCalls(targets, failed) == targets

\* The test Close makes on entry.
AlreadyClosed_Never == FALSE
AlreadyClosed == gClosed

\* The broker channels that the calls close: a channel closed directly, and
\* every channel of a link that is closed.
ClosedByClose(calls) ==
  {gChannels[calls[i].id] : i \in {j \in DOMAIN calls : calls[j].kind = "named"}}
  \cup {gDefault : i \in {j \in DOMAIN calls : calls[j].kind = "default"}}
  \cup {k \in 1..Len(gCh) :
          gCh[k].link = gConn /\ \E j \in DOMAIN calls : calls[j].kind = "link"}

\* Close, under c.mu.Lock() from entry to return.
Close(c) ==
  /\ gPc[c] = "idle"
  /\ gCalls < MaxCalls
  /\ gCalls' = gCalls + 1
  /\ IF AlreadyClosed
     THEN /\ gLast' = [n |-> gCalls + 1, op |-> "Close", err |-> <<>>, log |-> <<>>,
                       dialed |-> FALSE]
          /\ UNCHANGED <<gConn, gDefault, gChannels, gTags, gClosed, gLinks, gCh,
                         gFaults, gCloseErrs>>
     ELSE \E order \in Orders(DOMAIN gChannels) :
          LET targets == CloseTargets(order)
              stale == {i \in DOMAIN targets : ~TargetOpen(targets[i])}
          IN
          \E inj \in SUBSET (DOMAIN targets \ stale) :
            LET failed == stale \cup inj
                calls == CloseCalls(targets, failed)
                errs == SelectSeq(calls, LAMBDA t :
                          \E i \in failed : targets[i] = t)
            IN
            /\ gFaults + Cardinality(inj) <= MaxFaults
            /\ gFaults' = gFaults + Cardinality(inj)
            /\ gCh' = CloseChannels(gCh, ClosedByClose(calls))
            /\ gLinks' = [k \in 1..Len(gLinks) |->
                            IF k = gConn /\ \E j \in DOMAIN calls : calls[j].kind = "link"
                            THEN FALSE ELSE gLinks[k]]
            /\ gChannels' = <<>>
            /\ gDefault' = 0
            /\ gConn' = 0
            /\ gTags' = <<>>
            /\ gClosed' = TRUE
            /\ gCloseErrs' = errs
            /\ gLast' = [n |-> gCalls + 1, op |-> "Close", err |-> errs, log |-> calls,
                         dialed |-> FALSE]
  /\ UNCHANGED <<gPrefetch, gObs, gPc, gReq, gRet>>

\* RegisterConsumerTag(Q, tag), under c.mu.Lock().
RegisterConsumerTag(c) ==
  /\ gPc[c] = "idle"
  /\ gTags' = Put(gTags, Q, "ctag")
  /\ UNCHANGED <<gPrefetch, gConn, gDefault, gChannels, gClosed, gLinks, gCh, gObs,
                 gPc, gReq, gRet, gCalls, gFaults, gLast, gCloseErrs>>

\* The broker closes an open channel (a channel exception).
BrokerClosesChannel ==
  \E k \in 1..Len(gCh) :
    /\ gCh[k].open
    /\ gCh' = CloseChannels(gCh, {k})
    /\ UNCHANGED <<gPrefetch, gConn, gDefault, gChannels, gTags, gClosed, gLinks, gObs,
                   gPc, gReq, gRet, gCalls, gFaults, gLast, gCloseErrs>>

\* The goroutine of setupChannelHandlers: NotifyClose has fired for its
\* channel; for a named channel it deletes c.channels[channelID] under c.mu.Lock().
CloseObserved ==
  \E o \in gObs :
    /\ ~gCh[o[1]].open
    /\ gObs' = gObs \ {o}
    /\ gChannels' = IF o[2] # "default"
                    THEN [x \in (DOMAIN gChannels) \ {o[2]} |-> gChannels[x]]
                    ELSE gChannels
    /\ UNCHANGED <<gPrefetch, gConn, gDefault, gTags, gClosed, gLinks, gCh, gPc, gReq,
                   gRet, gCalls, gFaults, gLast, gCloseErrs>>

GoNext ==
  \/ \E c \in Callers : Connect(c)
  \/ \E c \in Callers : GetDefaultChannel(c)
  \/ \E c \in Callers : GetChannelCheck(c)
  \/ \E c \in Callers : GetChannelCreate(c)
  \/ \E c \in Callers : Close(c)
  \/ \E c \in Callers : RegisterConsumerTag(c)
  \/ BrokerClosesChannel
  \/ CloseObserved

\* ========================================= TypeScript RabbitMQConnection
VARIABLES
  tPrefetch,  \* config.prefetch
  tConn,      \* this.connection: 0 for null, else the number of the link
  tDefault,   \* this.defaultChannel: 0 for null, else the number of the channel
  tChannels,  \* this.channels: channel ID -> number of the channel
  tCh,        \* the broker channels created, in order: [id, link, open]
  tHandled,   \* channels whose 'close' handler is registered
  tPc,        \* per caller: where its async call is suspended, or "idle"
  tReq,       \* per caller: the channel ID of its getChannel call
  tLocal,     \* per caller: the local const channel of getChannel
  tRet,       \* resolved getChannel calls: <<channelID, channel (0: rejected), connected>>
  tCalls,     \* calls started so far
  tFaults     \* broker calls that failed so far

tsVars == <<tPrefetch, tConn, tDefault, tChannels, tCh, tHandled, tPc, tReq, tLocal,
            tRet, tCalls, tFaults>>

\* new RabbitMQConnection(config).
TsInit ==
  /\ tPrefetch \in {0, 10}
  /\ tConn = 0
  /\ tDefault = 0
  /\ tChannels = <<>>
  /\ tCh = <<>>
  /\ tHandled = {}
  /\ tPc = [c \in Callers |-> "idle"]
  /\ tReq = [c \in Callers |-> ""]
  /\ tLocal = [c \in Callers |-> 0]
  /\ tRet = {}
  /\ tCalls = 0
  /\ tFaults = 0

\* connect(), up to its first await.
TsConnect(c) ==
  /\ tPc[c] = "idle"
  /\ tCalls < MaxCalls
  /\ tCalls' = tCalls + 1
  /\ tPc' = [tPc EXCEPT ![c] = IF tConn # 0 /\ tDefault # 0 THEN "idle" ELSE "dial"]
  /\ UNCHANGED <<tPrefetch, tConn, tDefault, tChannels, tCh, tHandled, tReq, tLocal,
                 tRet, tFaults>>

\* connect(): await connect(url) settles; createChannel is then called on the new link.
TsDialed(c) ==
  /\ tPc[c] = "dial"
  /\ \E ok \in Outcomes(tFaults) :
       /\ tFaults' = IF ok THEN tFaults ELSE tFaults + 1
       /\ tConn' = IF ok THEN tConn + 1 ELSE tConn
       /\ tPc' = [tPc EXCEPT ![c] = IF ok THEN "chan" ELSE "idle"]
  /\ UNCHANGED <<tPrefetch, tDefault, tChannels, tCh, tHandled, tReq, tLocal, tRet,
                 tCalls>>

\* connect(): await createChannel() settles; without prefetch the handlers follow.
TsDefaultCreated(c) ==
  /\ tPc[c] = "chan"
  /\ \E ok \in Outcomes(tFaults) :
       LET ch == Len(tCh) + 1 IN
       /\ tFaults' = IF ok THEN tFaults ELSE tFaults + 1
       /\ tCh' = IF ok THEN Append(tCh, NewChannel("", tConn)) ELSE tCh
       /\ tDefault' = IF ok THEN ch ELSE tDefault
       /\ tHandled' = IF ok /\ tPrefetch = 0 THEN tHandled \cup {ch} ELSE tHandled
       /\ tPc' = [tPc EXCEPT ![c] = IF ok /\ tPrefetch # 0 THEN "dprefetch" ELSE "idle"]
  /\ UNCHANGED <<tPrefetch, tConn, tChannels, tReq, tLocal, tRet, tCalls>>

\* connect(): await defaultChannel.prefetch() settles; setupConnectionHandlers.
TsDefaultPrefetched(c) ==
  /\ tPc[c] = "dprefetch"
  /\ \E ok \in Outcomes(tFaults) :
       /\ tFaults' = IF ok THEN tFaults ELSE tFaults + 1
       /\ tHandled' = IF ok /\ tConn # 0 /\ tDefault # 0
                      THEN tHandled \cup {tDefault}
                      ELSE tHandled
  /\ tPc' = [tPc EXCEPT ![c] = "idle"]
  /\ UNCHANGED <<tPrefetch, tConn, tDefault, tChannels, tCh, tReq, tLocal, tRet, tCalls>>

\* getChannel() without a channelId.
TsGetDefaultChannel(c) ==
  /\ tPc[c] = "idle"
  /\ tCalls < MaxCalls
  /\ tCalls' = tCalls + 1
  /\ tRet' = tRet \cup {<<"", tDefault, tConn # 0>>}
  /\ UNCHANGED <<tPrefetch, tConn, tDefault, tChannels, tCh, tHandled, tPc, tReq,
                 tLocal, tFaults>>

\* getChannel(id), up to its first await: the lookup, the connection
\* check, and the call of createChannel.
TsGetChannel(c) ==
  /\ tPc[c] = "idle"
  /\ tCalls < MaxCalls
  /\ tCalls' = tCalls + 1
  /\ \E id \in ChannelIDs \ {""} :
       /\ tReq' = [tReq EXCEPT ![c] = id]
       /\ IF id \in DOMAIN tChannels
          THEN /\ tRet' = tRet \cup {<<id, tChannels[id], tConn # 0>>}
               /\ UNCHANGED tPc
          ELSE IF tConn = 0
          THEN /\ tRet' = tRet \cup {<<id, 0, FALSE>>}
               /\ UNCHANGED tPc
          ELSE /\ tPc' = [tPc EXCEPT ![c] = "creating"]
               /\ UNCHANGED tRet
  /\ UNCHANGED <<tPrefetch, tConn, tDefault, tChannels, tCh, tHandled, tLocal, tFaults>>

\* getChannel(id): setupChannelHandlers, this.channels.set, return.
TsCache(c, ch) ==
  /\ tHandled' = tHandled \cup {ch}
  /\ tChannels' = Put(tChannels, tReq[c], ch)
  /\ tRet' = tRet \cup {<<tReq[c], ch, TRUE>>}
  /\ tPc' = [tPc EXCEPT ![c] = "idle"]

\* getChannel(id): await createChannel() settles.
TsChannelCreated(c) ==
  /\ tPc[c] = "creating"
  /\ \E ok \in Outcomes(tFaults) :
       LET ch == Len(tCh) + 1 IN
       /\ tFaults' = IF ok THEN tFaults ELSE tFaults + 1
       /\ tCh' = IF ok THEN Append(tCh, NewChannel(tReq[c], tConn)) ELSE tCh
       /\ IF ~ok
          THEN /\ tRet' = tRet \cup {<<tReq[c], 0, TRUE>>}
               /\ tPc' = [tPc EXCEPT ![c] = "idle"]
               /\ UNCHANGED <<tLocal, tHandled, tChannels>>
          ELSE IF tPrefetch # 0
          THEN /\ tLocal' = [tLocal EXCEPT ![c] = ch]
               /\ tPc' = [tPc EXCEPT ![c] = "prefetch"]
               /\ UNCHANGED <<tRet, tHandled, tChannels>>
          ELSE /\ TsCache(c, ch)
               /\ UNCHANGED tLocal
  /\ UNCHANGED <<tPrefetch, tConn, tDefault, tReq, tCalls>>

\* getChannel(id): await channel.prefetch() settles.
TsChannelPrefetched(c) ==
  /\ tPc[c] = "prefetch"
  /\ \E ok \in Outcomes(tFaults) :
       /\ tFaults' = IF ok THEN tFaults ELSE tFaults + 1
       /\ IF ok
          THEN TsCache(c, tLocal[c])
          ELSE /\ tRet' = tRet \cup {<<tReq[c], 0, TRUE>>}
               /\ tPc' = [tPc EXCEPT ![c] = "idle"]
               /\ UNCHANGED <<tHandled, tChannels>>
  /\ tLocal' = [tLocal EXCEPT ![c] = 0]
  /\ UNCHANGED <<tPrefetch, tConn, tDefault, tCh, tReq, tCalls>>

\* The broker closes an open channel; its 'close' handler, when
\* registered, deletes this.channels[channelId] of a named channel.
TsChannelClosed ==
  \E k \in 1..Len(tCh) :
    /\ tCh[k].open
    /\ tCh' = CloseChannels(tCh, {k})
    /\ tHandled' = tHandled \ {k}
    /\ tChannels' = IF k \in tHandled /\ HandlerID(tCh[k].id) # "default"
                    THEN [x \in (DOMAIN tChannels) \ {tCh[k].id} |-> tChannels[x]]
                    ELSE tChannels
    /\ UNCHANGED <<tPrefetch, tConn, tDefault, tPc, tReq, tLocal, tRet, tCalls, tFaults>>

TsNext ==
  \/ \E c \in Callers : TsConnect(c)
  \/ \E c \in Callers : TsDialed(c)
  \/ \E c \in Callers : TsDefaultCreated(c)
  \/ \E c \in Callers : TsDefaultPrefetched(c)
  \/ \E c \in Callers : TsGetDefaultChannel(c)
  \/ \E c \in Callers : TsGetChannel(c)
  \/ \E c \in Callers : TsChannelCreated(c)
  \/ \E c \in Callers : TsChannelPrefetched(c)
  \/ TsChannelClosed

\* ============================================================ Publisher
MaxPubCalls == 2        \* publisher calls in one behaviour

VARIABLES
  plast       \* the last publisher call that returned:
              \* [n, fn, declare, payloadOk, err, ops, sent]

pubVars == <<plast>>

NoPublish == [n |-> 0, fn |-> "none", declare |-> FALSE, payloadOk |-> TRUE,
              err |-> "none", ops |-> <<>>, sent |-> FALSE]

\* Queues producers publish to: the consumer's queue and one nobody declared.
PubQueues == {Q, "R"}

\* if options.EnableQueueDeclare { channel.QueueDeclare(...) }
DeclareWanted_Always(enableQueueDeclare) == TRUE
DeclareWanted(enableQueueDeclare) == enableQueueDeclare

\* json.Marshal(payload) returned an error: the function returns it.
MarshalStops_Never(marshalOk) == FALSE
MarshalStops(marshalOk) == ~marshalOk

\* What PublishWithContext(..., mandatory = false, ...) returns once the
\* message is sent, routed to a queue or not.
PublishResult_Strict(routed) == IF routed THEN "none" ELSE "publish"
PublishResult(routed) == "none"

\* The body shared by PublishToQueue and PublishToQueueRaw.  getch, sendOk:
\* whether conn.GetChannel and the publish call succeed; failAt: 1 when the
\* declaration fails in transit.
PublishQueueBody(fn, queue, enableQueueDeclare, marshalOk, getch, failAt, sendOk) ==
  LET ops == IF getch /\ DeclareWanted(enableQueueDeclare)
             THEN <<QueueDeclareOp(queue, EmptyTable)>> ELSE <<>>
      r == RunOps(broker, ops, 1, failAt)
      send == getch /\ r.ok /\ ~MarshalStops(marshalOk) /\ sendOk
      targets == Route(r.b, "", queue)
      m == [id |-> Len(pub) + 1, rk |-> queue, headers |-> EmptyTable]
      err == IF ~getch THEN "channel"
             ELSE IF ~r.ok THEN "declare"
             ELSE IF MarshalStops(marshalOk) THEN "marshal"
             ELSE IF ~sendOk THEN "publish"
             ELSE PublishResult(targets # {})
  IN
  /\ plast.n < MaxPubCalls
  /\ (~getch) => (failAt = 0 /\ sendOk)
  /\ (ops = <<>>) => failAt = 0
  /\ (~r.ok \/ MarshalStops(marshalOk)) => sendOk
  /\ faults' = IF ~getch \/ failAt # 0 \/ ~sendOk THEN faults + 1 ELSE faults
  /\ broker' = IF send THEN Enqueue(r.b, targets, m) ELSE r.b
  /\ lost' = IF send /\ targets = {} THEN lost \cup {m.id} ELSE lost
  /\ pub' = IF send THEN Append(pub, [ex |-> "", rk |-> queue, headers |-> EmptyTable])
            ELSE pub
  /\ plast' = [n |-> plast.n + 1, fn |-> fn, declare |-> enableQueueDeclare,
               payloadOk |-> marshalOk, err |-> err, ops |-> SubSeq(ops, 1, r.issued),
               sent |-> send]
  /\ UNCHANGED <<opts, qoptArgs, unacked, chanState, consuming, cq, oplog, lp, cur, dlv,
                 now>>

\* PublishToQueue(conn, queue, payload, options).
PublishToQueue ==
  \E queue \in PubQueues, enableQueueDeclare, marshalOk \in BOOLEAN,
     getch, sendOk \in Outcomes(faults), failAt \in FailPoints(1) :
    PublishQueueBody("PublishToQueue", queue, enableQueueDeclare, marshalOk, getch,
                     failAt, sendOk)

\* PublishToQueueRaw(conn, queue, message, options): no marshaling.
PublishToQueueRaw ==
  \E queue \in PubQueues, enableQueueDeclare \in BOOLEAN,
     getch, sendOk \in Outcomes(faults), failAt \in FailPoints(1) :
    PublishQueueBody("PublishToQueueRaw", queue, enableQueueDeclare, TRUE, getch,
                     failAt, sendOk)

\* PublishToExchange(conn, E, routingKey, payload, nil, nil).
PublishToExchange ==
  \E rk \in {AppKey, Q}, marshalOk \in BOOLEAN,
     getch, sendOk \in Outcomes(faults), failAt \in FailPoints(1) :
    LET ops == IF getch THEN <<ExchangeDeclareOp(AppExchange)>> ELSE <<>>
        r == RunOps(broker, ops, 1, failAt)
        send == getch /\ r.ok /\ ~MarshalStops(marshalOk) /\ sendOk
        targets == Route(r.b, AppExchange, rk)
        m == [id |-> Len(pub) + 1, rk |-> rk, headers |-> EmptyTable]
        err == IF ~getch THEN "channel"
               ELSE IF ~r.ok THEN "declare"
               ELSE IF MarshalStops(marshalOk) THEN "marshal"
               ELSE IF ~sendOk THEN "publish"
               ELSE PublishResult(targets # {})
    IN
    /\ plast.n < MaxPubCalls
    /\ (~getch) => (failAt = 0 /\ sendOk)
    /\ (~r.ok \/ MarshalStops(marshalOk)) => sendOk
    /\ faults' = IF ~getch \/ failAt # 0 \/ ~sendOk THEN faults + 1 ELSE faults
    /\ broker' = IF send THEN Enqueue(r.b, targets, m) ELSE r.b
    /\ lost' = IF send /\ targets = {} THEN lost \cup {m.id} ELSE lost
    /\ pub' = IF send THEN Append(pub, [ex |-> AppExchange, rk |-> rk,
                                        headers |-> EmptyTable])
              ELSE pub
    /\ plast' = [n |-> plast.n + 1, fn |-> "PublishToExchange", declare |-> TRUE,
                 payloadOk |-> marshalOk, err |-> err, ops |-> SubSeq(ops, 1, r.issued),
                 sent |-> send]
    /\ UNCHANGED <<opts, qoptArgs, unacked, chanState, consuming, cq, oplog, lp, cur, dlv,
                   now>>

\* ===================================================== strategy calls
MaxStrategyCalls == 2   \* calls of Setup and GetDelay on one strategy in one behaviour

VARIABLES
  slog        \* the Setup and GetDelay calls that returned:
              \* [fn, attempt, ok, wrapped, val]

strategyVars == <<slog>>

\* Strategies applications configure: the ones above, the README's
\* exponential example, one whose delays reach maxDelayMs, one with
\* multiplier 1 and one with multiplier 1.5.
SetupStrategies ==
  Strategies
  \cup {NewExponentialBackoffWithMaxDelay(n, 1000, 2, 1, 60000) : n \in 1..MaxAttemptsBound}
  \cup {NewExponentialBackoffWithMaxDelay(n, 100, 2, 1, 150) : n \in 1..MaxAttemptsBound}
  \cup {NewExponentialBackoff(n, 100, 1, 1) : n \in 1..MaxAttemptsBound}
  \cup {NewExponentialBackoff(n, 100, 3, 2) : n \in 1..MaxAttemptsBound}

\* float64(s.InitialDelayMs) * math.Pow(s.Multiplier, float64(attemptCount))
\* for a whole multiplier, as three digits of 21 bits, lowest first; over is
\* set once the product is 2^63 or more.  The factors are multiplied in by
\* chunks whose product stays below 1024.
DelayDigits(s, attemptCount) ==
  LET Limb == 2097152
      Digits(n) == [l0 |-> n % Limb, l1 |-> n \div Limb, l2 |-> 0, over |-> FALSE]
      MulSmall(x, k) ==
        LET p0 == x.l0 * k
            p1 == x.l1 * k + p0 \div Limb
            p2 == x.l2 * k + p1 \div Limb
        IN [l0 |-> p0 % Limb, l1 |-> p1 % Limb, l2 |-> p2 % Limb,
            over |-> x.over \/ p2 \div Limb > 0]
      c == CHOOSE n \in 1..9 :
             Pow(s.multNum, n) < 1024 /\ (n = 9 \/ Pow(s.multNum, n + 1) >= 1024)
      f[i \in 0..(attemptCount \div c)] ==
        IF i = 0 THEN MulSmall(Digits(s.initialDelayMs), Pow(s.multNum, attemptCount % c))
        ELSE MulSmall(f[i - 1], Pow(s.multNum, c))
  IN f[attemptCount \div c]

\* GetDelay as the build computes it.  The result is [wrapped, val].
\* int(delay) for a delay of 2^63 or more is implementation-dependent: the
\* conversion of a float64 that an int cannot hold yields the smallest int
\* on amd64 and the largest one on arm64.  The smallest int is not above
\* s.MaxDelayMs and is returned as it is (wrapped); the largest one is
\* replaced by s.MaxDelayMs, as is every delay of 2^31 or more.
GetDelayResults(s, attemptCount) ==
  IF s.kind # "exponential" \/ s.multDen # 1
  THEN {[wrapped |-> FALSE, val |-> GetDelay(s, attemptCount)]}
  ELSE LET x == DelayDigits(s, attemptCount) IN
       IF x.over
       THEN {[wrapped |-> (i = "min"), val |-> IF i = "min" THEN 0 ELSE s.maxDelayMs] :
               i \in {"min", "max"}}
       ELSE IF x.l2 > 0 \/ x.l1 >= 1024
       THEN {[wrapped |-> FALSE, val |-> s.maxDelayMs]}
       ELSE {[wrapped |-> FALSE, val |-> GetDelay(s, attemptCount)]}

\* The attempt counts GetDelay is called with.
DelayAttempts(s) ==
  IF s.kind = "exponential" /\ s.multDen = 1 THEN {0, 1, 2, 3, 4, 10, 53, 54, 64}
  ELSE {0, 1, 2, 3, 4}

\* s.GetDelay(attemptCount).
GetDelayCall ==
  /\ Len(slog) < MaxStrategyCalls
  /\ opts.strategy.kind # "none"
  /\ \E a \in DelayAttempts(opts.strategy) : \E r \in GetDelayResults(opts.strategy, a) :
       slog' = Append(slog, [fn |-> "GetDelay", attempt |-> a, ok |-> TRUE,
                             wrapped |-> r.wrapped, val |-> r.val])
  /\ UNCHANGED retryVars

\* s.Setup(channel, Q).
SetupCall ==
  /\ Len(slog) < MaxStrategyCalls
  /\ opts.strategy.kind # "none"
  /\ \E failAt \in FailPoints(Len(StrategySetupOps(opts.strategy, Q))) :
       LET r == RunOps(broker, StrategySetupOps(opts.strategy, Q), 1, failAt) IN
       /\ broker' = r.b
       /\ oplog' = oplog \o SubSeq(StrategySetupOps(opts.strategy, Q), 1, r.issued)
       /\ faults' = IF failAt # 0 /\ r.issued = failAt /\ ~r.ok THEN faults + 1 ELSE faults
       /\ slog' = Append(slog, [fn |-> "Setup", attempt |-> 0, ok |-> r.ok,
                                wrapped |-> FALSE, val |-> 0])
  /\ UNCHANGED <<opts, qoptArgs, unacked, lost, chanState, consuming, cq, lp, cur, dlv,
                 pub, now>>

\* ======================================================= CancelConsumer
MaxCancels == 1         \* CancelConsumer calls in one behaviour

VARIABLES
  copts,      \* ConsumeOptions of the ConsumeQueue call: channelID, consumerTag
  cancels     \* the CancelConsumer calls that returned: [tag, sent, ok, dlvAt, running]

cancelVars == <<copts, cancels>>

\* The tag the client library generates for a consumer started with
\* options.ConsumerTag = "".
GeneratedTag == "ctag-1"

\* The tag of the consumer that channel.Consume(queue, options.ConsumerTag, ...) starts.
ConsumerTagOf(o) == IF o.consumerTag = "" THEN GeneratedTag ELSE o.consumerTag

\* The arguments callers pass to CancelConsumer: the tag they consumed
\* with, or the name of the queue.
CancelArgs == {"ctag", Q}

\* The channel CancelConsumer cancels on: the default channel.
CancelChannelID(o) == ""

\* CancelConsumer(conn, consumerTag): GetChannel(""), then
\* channel.Cancel(consumerTag, false) on it.  A consumer tag is known on the
\* channel its consumer was started on; the broker answers a cancel for a
\* tag unknown on the channel with cancel-ok.
CancelConsumer(consumerTag) ==
  /\ Len(cancels) < MaxCancels
  /\ IF chanState = "gone"
     THEN /\ cancels' = Append(cancels, [tag |-> consumerTag, sent |-> FALSE, ok |-> FALSE,
                                         dlvAt |-> Len(dlv), running |-> consuming])
          /\ UNCHANGED <<consuming, faults>>
     ELSE \E ok \in IF copts.channelID = "" /\ chanState # "open"
                    THEN {FALSE} ELSE Outcomes(faults) :
          /\ cancels' = Append(cancels, [tag |-> consumerTag, sent |-> TRUE, ok |-> ok,
                                         dlvAt |-> Len(dlv), running |-> consuming])
          /\ faults' = IF ok \/ (copts.channelID = "" /\ chanState # "open")
                       THEN faults ELSE faults + 1
          /\ consuming' = IF /\ ok
                             /\ CancelChannelID(copts) = copts.channelID
                             /\ consumerTag = ConsumerTagOf(copts)
                          THEN FALSE ELSE consuming
  /\ UNCHANGED <<opts, qoptArgs, broker, unacked, lost, chanState, cq, oplog, lp, cur,
                 dlv, pub, now, copts>>

\* =========================================== TypeScript publish and consume
MaxTsCalls == 2         \* publishToQueue calls in one behaviour
MaxTsDeliveries == 3    \* deliveries to the consumeQueue callback
MaxTsChannels == 2      \* default channels one connection object opens in turn

VARIABLES
  checkedQueues,  \* RabbitMQConnection.checkedQueues
  dchan,          \* this.defaultChannel: "null", or the state of the channel it holds
  dgen,           \* which default channel this.defaultChannel is: 1, 2, ...
  ppc,            \* per caller: "idle", or "checking" while channel.checkQueue is awaited
  preq,           \* per caller: [queue, payload, gen] of its publishToQueue call
  pcalls,         \* publishToQueue calls made
  tq,             \* the bodies waiting in queue Q at the broker, oldest first
  tdlv,           \* the deliveries to the callback: [body, st, held, up, calls, reached]
  tNoAck,         \* options.noAck of the consumeQueue call
  tlast           \* the last call and what it returned: [op, queue, err, sent]

appVars == <<checkedQueues, dchan, dgen, ppc, preq, pcalls, tq, tdlv, tNoAck, tlast>>

\* The queues the broker has (consumeQueue asserted Q), and the names
\* callers publish to.
TsBrokerQueues == {Q}
TsQueueNames == {Q, "R"}

\* JSON.stringify(payload) for the payloads callers publish, and
\* JSON.parse(msg.content.toString()): the parsed value, or "SyntaxError".
TsPayloads == {1}
JsonStringify(payload) == IF payload = 1 THEN "1" ELSE "2"
JsonParse(body) ==
  IF body = "1" THEN [ok |-> TRUE, value |-> 1]
  ELSE IF body = "2" THEN [ok |-> TRUE, value |-> 2]
  ELSE [ok |-> FALSE, value |-> 0]

\* The bodies producers outside this package leave in the queue, and the
\* queue when the consumer starts: empty, or with one such message.
TsForeignBodies == {"1", "{"}
TsPresetQueues == {<<>>} \cup {<<b>> : b \in TsForeignBodies}

NoTsCall == [op |-> "", queue |-> "", err |-> "", sent |-> FALSE]
NoTsRequest == [queue |-> "", payload |-> 1, gen |-> 0]

\* The channel object a call or the consumer took from getChannel() is open.
ChannelUp(gen) == dchan = "open" /\ gen = dgen

\* The consumer was started on the first default channel.
ConsumerChannel == 1

\* The broker returns the deliveries a closing channel holds unacknowledged
\* to the queue, ahead of the waiting messages.
HeldBodies(dl) ==
  LET RECURSIVE Walk(_)
      Walk(i) == IF i > Len(dl) THEN <<>>
                 ELSE (IF dl[i].held THEN <<dl[i].body>> ELSE <<>>) \o Walk(i + 1)
  IN Walk(1)
ReleaseAll(dl) == [i \in DOMAIN dl |-> [dl[i] EXCEPT !.held = FALSE]]

\* What closing the channel of generation gen does at the broker.
ChannelGoes(gen) ==
  IF gen = ConsumerChannel
  THEN /\ tq' = HeldBodies(tdlv) \o tq
       /\ tdlv' = ReleaseAll(tdlv)
  ELSE UNCHANGED <<tq, tdlv>>

\* await channel.checkQueue(queue): resolves when the channel is open and
\* the broker has the queue.
CheckQueue_Always(queue, up) == TRUE
CheckQueue(queue, up) == up /\ queue \in TsBrokerQueues

\* channel.sendToQueue(queue, message, publishOptions) on an open channel:
\* the default exchange routes to the queue of that name, or drops.
SendToQueue(queue, body) ==
  IF queue = Q THEN Append(tq, body) ELSE tq

\* publishToQueue(connection, queue, payload) up to its first pending await:
\* getChannel(), then ensureQueueExists(); with the name cached it returns at
\* once and the message is sent, otherwise channel.checkQueue is issued.
TsPublishToQueue(c, queue, payload) ==
  /\ ppc[c] = "idle"
  /\ pcalls < MaxTsCalls
  /\ pcalls' = pcalls + 1
  /\ IF dchan = "null"
     THEN /\ tlast' = [op |-> "publishToQueue", queue |-> queue,
                       err |-> "Default channel not initialized", sent |-> FALSE]
          /\ UNCHANGED <<ppc, preq, tq>>
     ELSE IF queue \in checkedQueues
     THEN IF dchan = "open"
          THEN /\ tq' = SendToQueue(queue, JsonStringify(payload))
               /\ tlast' = [op |-> "publishToQueue", queue |-> queue, err |-> "",
                            sent |-> TRUE]
               /\ UNCHANGED <<ppc, preq>>
          ELSE /\ tlast' = [op |-> "publishToQueue", queue |-> queue,
                            err |-> "Channel closed", sent |-> FALSE]
               /\ UNCHANGED <<ppc, preq, tq>>
     ELSE /\ ppc' = [ppc EXCEPT ![c] = "checking"]
          /\ preq' = [preq EXCEPT ![c] = [queue |-> queue, payload |-> payload,
                                          gen |-> dgen]]
          /\ tlast' = [op |-> "checkQueue", queue |-> queue, err |-> "", sent |-> FALSE]
          /\ UNCHANGED tq
  /\ UNCHANGED <<checkedQueues, dchan, dgen, tdlv, tNoAck>>

\* channel.checkQueue settles: on success the name is cached and the message
\* sent; on failure ensureQueueExists throws and publishToQueue rethrows.
\* The broker closes a channel that checked a queue it does not have.
TsQueueChecked(c) ==
  /\ ppc[c] = "checking"
  /\ ppc' = [ppc EXCEPT ![c] = "idle"]
  /\ preq' = [preq EXCEPT ![c] = NoTsRequest]
  /\ LET r == preq[c]
         up == ChannelUp(r.gen)
     IN IF CheckQueue(r.queue, up)
        THEN /\ checkedQueues' = checkedQueues \cup {r.queue}
             /\ tq' = SendToQueue(r.queue, JsonStringify(r.payload))
             /\ tlast' = [op |-> "publishToQueue", queue |-> r.queue, err |-> "",
                          sent |-> TRUE]
             /\ UNCHANGED <<dchan, tdlv>>
        ELSE /\ tlast' = [op |-> "publishToQueue", queue |-> r.queue,
                          err |-> "Queue does not exist", sent |-> FALSE]
             /\ UNCHANGED checkedQueues
             /\ IF up
                THEN dchan' = "closed" /\ ChannelGoes(dgen)
                ELSE UNCHANGED <<dchan, tq, tdlv>>
  /\ UNCHANGED <<dgen, pcalls, tNoAck>>

\* clearQueueCache().
TsClearQueueCache ==
  /\ checkedQueues # {}
  /\ checkedQueues' = {}
  /\ tlast' = [op |-> "clearQueueCache", queue |-> "", err |-> "", sent |-> FALSE]
  /\ UNCHANGED <<dchan, dgen, ppc, preq, pcalls, tq, tdlv, tNoAck>>

\* close(): closes the default channel and the connection and forgets both;
\* closing a channel that is closed already throws, and close() rethrows
\* with both still held.
TsClose ==
  /\ dchan # "null"
  /\ IF dchan = "open"
     THEN /\ dchan' = "null"
          /\ ChannelGoes(dgen)
          /\ tlast' = [op |-> "close", queue |-> "", err |-> "", sent |-> FALSE]
     ELSE /\ tlast' = [op |-> "close", queue |-> "", err |-> "Channel closed",
                       sent |-> FALSE]
          /\ UNCHANGED <<dchan, tq, tdlv>>
  /\ UNCHANGED <<checkedQueues, dgen, ppc, preq, pcalls, tNoAck>>

\* connect() on a connection object that holds no link: a new link and a
\* new default channel.
TsReconnect ==
  /\ dchan = "null"
  /\ dgen < MaxTsChannels
  /\ dchan' = "open"
  /\ dgen' = dgen + 1
  /\ tlast' = [op |-> "connect", queue |-> "", err |-> "", sent |-> FALSE]
  /\ UNCHANGED <<checkedQueues, ppc, preq, pcalls, tq, tdlv, tNoAck>>

\* The broker or the network closes the default channel.
TsChannelLost ==
  /\ dchan = "open"
  /\ dchan' = "closed"
  /\ ChannelGoes(dgen)
  /\ tlast' = [op |-> "channelLost", queue |-> "", err |-> "", sent |-> FALSE]
  /\ UNCHANGED <<checkedQueues, dgen, ppc, preq, pcalls, tNoAck>>

\* channel.nack(msg, false, true): the requeue argument.
NackRequeue_Drop == FALSE
NackRequeue == TRUE

\* The calls the callback makes on its channel once the outcome is known:
\* ack after the handler resolved, nack in the catch block, which also
\* catches what ack throws on a closed channel; none with noAck.
DecisionCalls_AckAlways(noAck, resolved, up) == <<"ack">>
DecisionCalls(noAck, resolved, up) ==
  IF noAck THEN <<>>
  ELSE IF resolved THEN (IF up THEN <<"ack">> ELSE <<"ack", "nack">>)
  ELSE <<"nack">>

\* The delivery record after the calls, and the queue after them: on an
\* open channel the broker drops an acked message and puts a nacked one
\* back at the head when requeue is set.
Decided(d, res, up) ==
  LET calls == DecisionCalls(tNoAck, res = "resolved", up)
  IN [d EXCEPT !.st = res, !.up = up, !.calls = calls,
               !.reached = IF up THEN calls ELSE <<>>,
               !.held = IF up THEN FALSE ELSE d.held]
QueueAfter(d, res, up, q) ==
  IF up /\ DecisionCalls(tNoAck, res = "resolved", up) = <<"nack">> /\ NackRequeue
  THEN <<d.body>> \o q ELSE q

\* The broker delivers the oldest message to the callback, which parses it:
\* a body that is not JSON goes to the catch block at once, otherwise the
\* handler is awaited.  With noAck the broker forgets a message on delivery.
TsDeliver ==
  /\ ChannelUp(ConsumerChannel)
  /\ tq # <<>>
  /\ Len(tdlv) < MaxTsDeliveries
  /\ LET d == [body |-> Head(tq), st |-> "running", held |-> ~tNoAck, up |-> TRUE,
               calls |-> <<>>, reached |-> <<>>]
     IN IF JsonParse(d.body).ok
        THEN /\ tdlv' = Append(tdlv, d)
             /\ tq' = Tail(tq)
        ELSE /\ tdlv' = Append(tdlv, Decided(d, "SyntaxError", TRUE))
             /\ tq' = QueueAfter(d, "SyntaxError", TRUE, Tail(tq))
  /\ tlast' = [op |-> "deliver", queue |-> Q, err |-> "", sent |-> FALSE]
  /\ UNCHANGED <<checkedQueues, dchan, dgen, ppc, preq, pcalls, tNoAck>>

\* await handler(payload, msg) settles, resolved or rejected.
TsHandlerSettled(i, res) ==
  /\ i \in DOMAIN tdlv
  /\ tdlv[i].st = "running"
  /\ LET up == ChannelUp(ConsumerChannel)
     IN /\ tdlv' = [tdlv EXCEPT ![i] = Decided(tdlv[i], res, up)]
        /\ tq' = QueueAfter(tdlv[i], res, up, tq)
  /\ tlast' = [op |-> "handler", queue |-> Q, err |-> "", sent |-> FALSE]
  /\ UNCHANGED <<checkedQueues, dchan, dgen, ppc, preq, pcalls, tNoAck>>

\* No TypeScript call: the state while another model runs.
AppIdle ==
  /\ checkedQueues = {} /\ dchan = "open" /\ dgen = 1
  /\ ppc = [c \in Callers |-> "idle"]
  /\ preq = [c \in Callers |-> NoTsRequest]
  /\ pcalls = 0 /\ tq = <<>> /\ tdlv = <<>> /\ tNoAck = FALSE
  /\ tlast = NoTsCall

\* After connect() and consumeQueue(connection, Q, handler, options).
TsAppStart ==
  /\ checkedQueues = {} /\ dchan = "open" /\ dgen = 1
  /\ ppc = [c \in Callers |-> "idle"]
  /\ preq = [c \in Callers |-> NoTsRequest]
  /\ pcalls = 0 /\ tdlv = <<>>
  /\ tNoAck \in BOOLEAN
  /\ tq \in TsPresetQueues
  /\ tlast = NoTsCall

TsAppNext ==
  \/ \E c \in Callers, queue \in TsQueueNames, payload \in TsPayloads :
       TsPublishToQueue(c, queue, payload)
  \/ \E c \in Callers : TsQueueChecked(c)
  \/ TsClearQueueCache
  \/ TsClose
  \/ TsReconnect
  \/ TsChannelLost
  \/ TsDeliver
  \/ \E i \in 1..MaxTsDeliveries, res \in {"resolved", "rejected"} : TsHandlerSettled(i, res)

\* ---------------------------------------------------------- specifications
vars == <<retryVars, goVars, tsVars, cancelVars, pubVars, strategyVars, appVars>>

\* No CancelConsumer call and no call of the publish functions;
\* ConsumeQueue on the default channel with a generated consumer tag.
CancelIdle ==
  /\ copts = [channelID |-> "", consumerTag |-> ""]
  /\ cancels = <<>>
  /\ plast = NoPublish
  /\ slog = <<>>
  /\ AppIdle

\* The state of the consumer model while a connection model runs.
RetryIdle ==
  /\ opts = [strategy |-> NoStrategy, enableDLQ |-> FALSE, noAck |-> FALSE]
  /\ RetryInit
  /\ broker = EmptyBroker

\* The state of the connection models while another model runs.
GoIdle == GoInit /\ gPrefetch = 0
TsIdle == TsInit /\ tPrefetch = 0

\* The consumer with its strategies against the broker.
Init == RetryInit /\ GoIdle /\ TsIdle /\ CancelIdle
Next == RetryNext /\ UNCHANGED <<goVars, tsVars, cancelVars, pubVars, strategyVars, appVars>>
Spec == Init /\ [][Next]_vars

\* The consumer on a queue the application has bound to its exchange, with
\* producers that publish to the queue or to the exchange.
RouteInit ==
  /\ RetryStart({BoundBroker})
  /\ GoIdle
  /\ TsIdle
  /\ CancelIdle
RouteNext == (RetryNext \/ PublishExchange) /\ UNCHANGED <<goVars, tsVars, cancelVars, pubVars, strategyVars, appVars>>
RouteSpec == RouteInit /\ [][RouteNext]_vars

\* The consumer when every handler call returns and the goroutine runs.
LoopStep ==
  \/ ProcessStart
  \/ ProcessSkip
  \/ HandlerSuccess
  \/ HandlerFailure
  \/ HandleFailurePublish
  \/ HandleFailureImmediate
  \/ RetryAck
  \/ RetryFailedNack
  \/ NoRetryNack
LiveSpec == Spec /\ WF_vars(LoopStep /\ UNCHANGED <<goVars, tsVars, cancelVars, pubVars, strategyVars, appVars>>)

\* Callers of one Go Connection.
GoSpecInit == GoInit /\ RetryIdle /\ TsIdle /\ CancelIdle
GoSpecNext == GoNext /\ UNCHANGED <<retryVars, tsVars, cancelVars, pubVars, strategyVars, appVars>>
GoSpec == GoSpecInit /\ [][GoSpecNext]_vars

\* Callers of a Go Connection that is in use: Connect has returned nil and
\* GetChannel("a") has created and cached the named channel; the close
\* observers of both channels wait.
ReuseInit ==
  /\ gPrefetch = 0
  /\ gConn = 1
  /\ gDefault = 1
  /\ gChannels = ("a" :> 2)
  /\ gTags = <<>>
  /\ gClosed = FALSE
  /\ gLinks = <<TRUE>>
  /\ gCh = <<NewChannel("", 1), NewChannel("a", 1)>>
  /\ gObs = {<<1, HandlerID("")>>, <<2, HandlerID("a")>>}
  /\ gPc = [c \in Callers |-> "idle"]
  /\ gReq = [c \in Callers |-> ""]
  /\ gRet = {<<"a", 2, TRUE>>}
  /\ gCalls = 0
  /\ gFaults = 0
  /\ gLast = [n |-> 0, op |-> "Connect", err |-> <<>>, log |-> <<>>, dialed |-> TRUE]
  /\ gCloseErrs = <<>>
  /\ RetryIdle /\ TsIdle /\ CancelIdle
ReuseSpec == ReuseInit /\ [][GoSpecNext]_vars

\* Callers of one TypeScript RabbitMQConnection.
TsSpecInit == TsInit /\ RetryIdle /\ GoIdle /\ CancelIdle
TsSpecNext == TsNext /\ UNCHANGED <<retryVars, goVars, cancelVars, pubVars, strategyVars, appVars>>
TsSpec == TsSpecInit /\ [][TsSpecNext]_vars

\* The consumer started on the default or on a named channel, with an
\* application that registers consumer tags and calls CancelConsumer.
CancelInit ==
  /\ RetryInit
  /\ GoIdle
  /\ TsIdle
  /\ copts \in [channelID : {"", "a"}, consumerTag : {"", "ctag"}]
  /\ cancels = <<>>
  /\ plast = NoPublish
  /\ slog = <<>>
  /\ AppIdle
CancelNext ==
  \/ RetryNext /\ UNCHANGED <<goVars, tsVars, cancelVars, pubVars, strategyVars, appVars>>
  \/ (\E t \in CancelArgs : CancelConsumer(t)) /\ UNCHANGED <<goVars, tsVars, pubVars, strategyVars, appVars>>
  \/ (\E c \in Callers : RegisterConsumerTag(c)) /\ UNCHANGED <<retryVars, tsVars, cancelVars, pubVars, strategyVars, appVars>>
CancelSpec == CancelInit /\ [][CancelNext]_vars

\* The broker before the producers run: empty, with Q declared, with Q
\* declared by a consumer with EnableDLQ, or with Q bound to the exchange.
PubBrokers ==
  Brokers0 \cup {BoundBroker, ApplyOp(EmptyBroker, QueueDeclareOp(Q, DLQArgs(EmptyTable, Q)))}

\* Producers calling the publish functions.
PubInit ==
  /\ RetryStart(PubBrokers)
  /\ opts = [strategy |-> NoStrategy, enableDLQ |-> FALSE, noAck |-> FALSE]
  /\ GoIdle
  /\ TsIdle
  /\ CancelIdle
PubNext ==
  (PublishToQueue \/ PublishToQueueRaw \/ PublishToExchange)
  /\ UNCHANGED <<goVars, tsVars, cancelVars, strategyVars, appVars>>
PubSpec == PubInit /\ [][PubNext]_vars

\* The consumer with one message more in play than in Spec.
PairNext ==
  (RetryNext \/ PublishAnother)
    /\ UNCHANGED <<goVars, tsVars, cancelVars, pubVars, strategyVars, appVars>>
PairSpec == Init /\ [][PairNext]_vars

\* An application calling Setup and GetDelay on a strategy it configured.
StrategyInit ==
  /\ RetryStartWith(SetupStrategies, Brokers0)
  /\ ~opts.enableDLQ /\ ~opts.noAck
  /\ GoIdle
  /\ TsIdle
  /\ CancelIdle
StrategyNext ==
  (SetupCall \/ GetDelayCall) /\ UNCHANGED <<goVars, tsVars, cancelVars, pubVars, appVars>>
StrategySpec == StrategyInit /\ [][StrategyNext]_vars

\* A TypeScript application publishing to and consuming from queue Q.
TsAppInit ==
  /\ TsAppStart
  /\ RetryIdle /\ GoIdle /\ TsIdle
  /\ copts = [channelID |-> "", consumerTag |-> ""]
  /\ cancels = <<>> /\ plast = NoPublish /\ slog = <<>>
TsAppSpecNext ==
  TsAppNext /\ UNCHANGED <<retryVars, goVars, tsVars, cancelVars, pubVars, strategyVars>>
TsAppSpec == TsAppInit /\ [][TsAppSpecNext]_vars

\* ------------------------------------------------------ history helpers
\* The topology of queue Q, per strategy where it depends on one.
SetupOpsOn == [s \in Strategies |-> StrategySetupOps(s, Q)]
WaitQueuesOn == [s \in Strategies |-> WaitQueueNames(s, Q)]
DLQOpsOnQ == SetupDLQOps(Q)
DLQArgsOnQ == DLQArgs(EmptyTable, Q)
WaitOnQ == FixedWaitQueueName(Q)
FailedOnQ == DlqQueueName(Q)

\* Delivery tags of message i, in delivery order.
DeliveriesOf(i) ==
  SelectSeq([t \in 1..Len(dlv) |-> t], LAMBDA t : dlv[t].id = i)

\* x-retry-count the delivery with tag t carried, as the code reads it.
CountOf(t) == GetRetryMetadata(dlv[t].headers).AttemptCount

\* The loop has finished with delivery t.
Finished(t) == t # cur.tag

\* Message i was published to Q with PublishToQueue, without retry headers.
FreshToQ(i) == pub[i] = [ex |-> "", rk |-> Q, headers |-> EmptyTable]

\* No handler call on message i has succeeded.
AlwaysFails(i) == \A t \in 1..Len(dlv) : dlv[t].id = i => dlv[t].res # "ok"

\* Copies of message i a queue holds.
CopiesIn(b, q, i) ==
  IF QueueExists(b, q)
  THEN Cardinality({k \in 1..Len(b.qmsgs[q]) : b.qmsgs[q][k].id = i})
  ELSE 0

\* Copies of message i in the wait queues of the strategy.
RECURSIVE SumCopies(_, _, _)
SumCopies(b, names, i) ==
  IF names = <<>> THEN 0
  ELSE CopiesIn(b, Head(names), i) + SumCopies(b, Tail(names), i)

CopiesWaiting(b, i) == SumCopies(b, WaitQueuesOn[opts.strategy], i)

Held(i) == \E t \in DOMAIN unacked : unacked[t].id = i

\* A consumer with acknowledgments on, no failed broker call so far.
Healthy == ~opts.noAck /\ faults = 0 /\ chanState # "gone"

\* ------------------------------------------------------------------ C1
\* C1: Fixed-Delay with maxAttempts = N and a handler that always fails: a
\* message published to Q without retry headers is handled on deliveries
\* carrying x-retry-count 0, 1, ..., N in that order; after each failure with
\* count < N it is published to Q.wait and the original delivery is acked; the
\* delivery with count N is nacked without requeue and the message is then
\* neither delivered again nor in Q or Q.wait; and a copy enters Q only by a
\* publish of the producer or by expiry from Q.wait.
C1_Schedule ==
  (opts.strategy.kind = "fixed" /\ Healthy) =>
    \A i \in 1..Len(pub) :
      (FreshToQ(i) /\ AlwaysFails(i)) =>
        LET ds == DeliveriesOf(i)
            N == opts.strategy.maxAttempts
        IN
        /\ Len(ds) <= N + 1
        /\ \A k \in 1..Len(ds) :
             /\ CountOf(ds[k]) = k - 1
             /\ (dlv[ds[k]].retry = "ok" /\ ~Finished(ds[k])) =>
                  CopiesIn(broker, WaitOnQ, i) + CopiesIn(broker, Q, i) = 1
             /\ Finished(ds[k]) =>
                  IF k - 1 < N
                  THEN /\ dlv[ds[k]].retry = "ok"
                       /\ dlv[ds[k]].target = WaitOnQ
                       /\ dlv[ds[k]].acks = <<"ack">>
                  ELSE /\ dlv[ds[k]].retry = "none"
                       /\ dlv[ds[k]].acks = <<"reject">>
        /\ (Len(ds) = N + 1 /\ Finished(ds[N + 1])) =>
             /\ CopiesIn(broker, Q, i) = 0
             /\ CopiesIn(broker, WaitOnQ, i) = 0
             /\ ~Held(i)

C1_OnlyByExpiry ==
  (opts.strategy.kind = "fixed" /\ Healthy /\ Healthy') =>
    \A i \in 1..Len(pub) :
      CopiesIn(broker', Q, i) > CopiesIn(broker, Q, i) =>
        \/ Len(pub') > Len(pub)
        \/ CopiesIn(broker', WaitOnQ, i)
             < CopiesIn(broker, WaitOnQ, i)

\* C1: the Fixed-Delay schedule holds in every state, and a copy enters Q
\* only by a publish of the producer or by expiry from Q.wait.
C1_FixedDelay == []C1_Schedule /\ [][C1_OnlyByExpiry]_vars

\* A Fixed-Delay run with N = 2 that went through attempts 0, 1 and 2.
C1_Witness ==
  /\ opts.strategy.kind = "fixed" /\ opts.strategy.maxAttempts = 2 /\ Healthy
  /\ Len(pub) >= 1 /\ FreshToQ(1) /\ AlwaysFails(1)
  /\ Len(DeliveriesOf(1)) = 3
  /\ dlv[DeliveriesOf(1)[3]].acks = <<"reject">>
  /\ lp = "idle"

\* ------------------------------------------------------------------ C2
\* Failed handler calls on message i the loop has finished with.
FailedAttempts(i) ==
  Cardinality({t \in 1..Len(dlv) : dlv[t].id = i /\ dlv[t].res = "err" /\ Finished(t)})

\* Exponential-Backoff with DLQ, a fresh message 1 whose handler always fails.
C2_Case ==
  /\ opts.strategy.kind = "exponential" /\ opts.enableDLQ /\ Healthy
  /\ Len(pub) >= 1 /\ FreshToQ(1) /\ AlwaysFails(1)

\* C2 as stated: with maxAttempts = 3, after 3 failed attempts the message is
\* in Q.failed, in no wait queue and not in Q.
C2_AsStated ==
  (C2_Case /\ opts.strategy.maxAttempts = 3 /\ FailedAttempts(1) = 3) =>
    /\ CopiesIn(broker, FailedOnQ, 1) = 1
    /\ CopiesWaiting(broker, 1) = 0
    /\ CopiesIn(broker, Q, 1) = 0

\* C2 amended: the message reaches Q.failed with the failure of the delivery
\* carrying x-retry-count = maxAttempts, that is after maxAttempts + 1 failed
\* handler calls and not earlier; it is then in no wait queue, not in Q and
\* not held by the consumer, and it never leaves Q.failed.
C2_Landed ==
  C2_Case =>
    /\ FailedAttempts(1) <= opts.strategy.maxAttempts + 1
    /\ FailedAttempts(1) = opts.strategy.maxAttempts + 1 =>
         /\ CopiesIn(broker, FailedOnQ, 1) = 1
         /\ CopiesWaiting(broker, 1) = 0
         /\ CopiesIn(broker, Q, 1) = 0
         /\ ~Held(1)
         /\ 1 \notin lost
    /\ FailedAttempts(1) < opts.strategy.maxAttempts + 1 =>
         CopiesIn(broker, FailedOnQ, 1) = 0

C2_Stays ==
  (C2_Case /\ CopiesIn(broker, FailedOnQ, 1) = 1) =>
    /\ CopiesIn(broker', FailedOnQ, 1) = 1
    /\ CopiesIn(broker', Q, 1) = 0
    /\ \A t \in 1..Len(dlv') : t > Len(dlv) => dlv'[t].id # 1

\* C2 (amended): the message lands in Q.failed with the failure of the
\* delivery carrying x-retry-count = maxAttempts, and then stays there and
\* is never delivered again.
C2_ExponentialDLQ == []C2_Landed /\ [][C2_Stays]_vars

\* maxAttempts = 3: the fourth failure has put the message into Q.failed.
C2_Witness ==
  /\ C2_Case /\ opts.strategy.maxAttempts = 3
  /\ FailedAttempts(1) = 4
  /\ CopiesIn(broker, FailedOnQ, 1) = 1

\* ------------------------------------------------------------------ C3
\* C3: Immediate with a handler that always fails: each redelivery of the
\* message carries an x-retry-count one higher than the failed delivery
\* before it, so at most maxAttempts + 1 deliveries take place.
C3_ImmediateCounts ==
  (opts.strategy.kind = "immediate" /\ Healthy) =>
    \A i \in 1..Len(pub) :
      AlwaysFails(i) =>
        LET ds == DeliveriesOf(i) IN
        \A k \in 1..(Len(ds) - 1) : CountOf(ds[k + 1]) = CountOf(ds[k]) + 1

\* ------------------------------------------------------------------ C4
\* x-retry-count of a header table as it stands on the wire: the value under
\* the key, 0 when the key is absent.
WireCount(headers) ==
  IF Has(headers, "x-retry-count") THEN headers["x-retry-count"][2] ELSE 0

\* Strategy configured and the delivery's count below maxAttempts.
RetryDue(t) ==
  opts.strategy.kind # "none" /\ WireCount(dlv[t].headers) < opts.strategy.maxAttempts

\* What the loop itself sent for delivery t: the acknowledgments recorded for
\* t without the nack-with-requeue that Immediate's HandleFailure sends.
LoopAcks(t) == SelectSeq(dlv[t].acks, LAMBDA a : a # "requeue")

\* C4 as stated: success leads to ack; failure with a strategy whose
\* ShouldRetry is true leads to HandleFailure and then ack; failure with no
\* strategy or ShouldRetry false leads to nack without requeue; nothing else.
C4_AsStated ==
  ~opts.noAck =>
    \A t \in 1..Len(dlv) :
      Finished(t) =>
        \/ dlv[t].res = "ok" /\ dlv[t].retry = "none" /\ dlv[t].acks = <<"ack">>
        \/ dlv[t].res = "err" /\ RetryDue(t) /\ dlv[t].retry # "none"
             /\ LoopAcks(t) = <<"ack">>
        \/ dlv[t].res = "err" /\ ~RetryDue(t) /\ dlv[t].retry = "none"
             /\ dlv[t].acks = <<"reject">>

\* C4 amended: as stated, with the two further transitions the loop has:
\* when HandleFailure returns an error the delivery is nacked without
\* requeue instead of acked, and when GetChannel fails at the start of
\* processMessage the delivery is returned without a handler call and
\* without ack or nack.  The loop itself never nacks with requeue (only
\* Immediate's HandleFailure does) and never acks a delivery whose retries are
\* exhausted.
C4_Transitions ==
  ~opts.noAck =>
    \A t \in 1..Len(dlv) :
      /\ ("requeue" \in {dlv[t].acks[k] : k \in 1..Len(dlv[t].acks)}) =>
           (opts.strategy.kind = "immediate" /\ dlv[t].retry # "none")
      /\ Finished(t) =>
           \/ dlv[t].res = "ok" /\ dlv[t].retry = "none" /\ dlv[t].acks = <<"ack">>
           \/ dlv[t].res = "err" /\ RetryDue(t) /\ dlv[t].retry = "ok"
                /\ LoopAcks(t) = <<"ack">>
           \/ dlv[t].res = "err" /\ RetryDue(t) /\ dlv[t].retry = "err"
                /\ LoopAcks(t) = <<"reject">>
           \/ dlv[t].res = "err" /\ ~RetryDue(t) /\ dlv[t].retry = "none"
                /\ dlv[t].acks = <<"reject">>
           \/ dlv[t].res = "skipped" /\ dlv[t].retry = "none" /\ dlv[t].acks = <<>>

\* A delivery whose HandleFailure failed has been nacked without requeue.
C4_Witness ==
  /\ ~opts.noAck
  /\ \E t \in 1..Len(dlv) :
       Finished(t) /\ dlv[t].retry = "err" /\ LoopAcks(t) = <<"reject">>

\* ------------------------------------------------------------------ C5
\* C5: for each strategy and every failed delivery, ShouldRetry is true (the
\* loop calls HandleFailure) exactly when the delivery's x-retry-count, 0
\* when absent, is below maxAttempts; at x-retry-count = maxAttempts it is false.
C5_ShouldRetry ==
  opts.strategy.kind # "none" =>
    /\ \A t \in 1..Len(dlv) :
         (dlv[t].res = "err" /\ Finished(t)) =>
           (dlv[t].retry # "none" <=> WireCount(dlv[t].headers) < opts.strategy.maxAttempts)
    /\ lp = "failed" =>
         (ShouldRetry(opts.strategy, cur.headers)
            <=> WireCount(cur.headers) < opts.strategy.maxAttempts)

\* A delivery carrying x-retry-count = maxAttempts was denied a retry.
C5_Witness ==
  /\ opts.strategy.kind = "exponential"
  /\ \E t \in 1..Len(dlv) :
       /\ dlv[t].res = "err" /\ Finished(t)
       /\ WireCount(dlv[t].headers) = opts.strategy.maxAttempts
       /\ Has(dlv[t].headers, "x-first-failed-at")
       /\ dlv[t].retry = "none"

\* ------------------------------------------------------------------ C6
\* C6: for Fixed-Delay and Exponential-Backoff the message HandleFailure
\* publishes carries the input's x-retry-count plus 1, keeps an
\* x-first-failed-at the input has and sets one when the input has none; so
\* all deliveries of one message that carry x-first-failed-at carry the same value.
C6_HeaderRoundTrip ==
  opts.strategy.kind \in {"fixed", "exponential"} =>
    /\ \A t \in 1..Len(dlv) :
         dlv[t].retry # "none" =>
           /\ Has(dlv[t].sent, "x-retry-count")
           /\ dlv[t].sent["x-retry-count"] = <<"int32", WireCount(dlv[t].headers) + 1>>
           /\ Has(dlv[t].sent, "x-first-failed-at")
           /\ Has(dlv[t].headers, "x-first-failed-at") =>
                dlv[t].sent["x-first-failed-at"] = dlv[t].headers["x-first-failed-at"]
    /\ \A t1, t2 \in 1..Len(dlv) :
         (/\ dlv[t1].id = dlv[t2].id
          /\ Has(dlv[t1].headers, "x-first-failed-at")
          /\ Has(dlv[t2].headers, "x-first-failed-at")) =>
           dlv[t1].headers["x-first-failed-at"] = dlv[t2].headers["x-first-failed-at"]
    /\ \A q \in DOMAIN broker.qmsgs : \A k \in 1..Len(broker.qmsgs[q]) :
         \A t \in 1..Len(dlv) :
           (/\ dlv[t].id = broker.qmsgs[q][k].id
            /\ Has(dlv[t].sent, "x-first-failed-at")
            /\ Has(broker.qmsgs[q][k].headers, "x-first-failed-at")) =>
             broker.qmsgs[q][k].headers["x-first-failed-at"] = dlv[t].sent["x-first-failed-at"]

\* A message failed twice, the second time at a later clock value, and its
\* second retry copy was published.
C6_Witness ==
  /\ opts.strategy.kind \in {"fixed", "exponential"}
  /\ \E t1, t2 \in 1..Len(dlv) :
       /\ t1 < t2 /\ dlv[t1].id = dlv[t2].id
       /\ dlv[t1].retry = "ok" /\ dlv[t2].retry = "ok"
       /\ WireCount(dlv[t2].sent) = 2
       /\ dlv[t1].sent["x-first-failed-at"][2] < now

\* ------------------------------------------------------------------ C9
\* Positions in oplog of the calls satisfying P.
Positions(P(_)) == {k \in 1..Len(oplog) : P(oplog[k])}

IsDeclareOfQ(o) == o.op = "QueueDeclare" /\ o.name = Q
IsConsume(o) == o.op = "Consume"
IsOneOf(ops, o) == \E k \in 1..Len(ops) : o = ops[k]

\* The broker holds everything the calls in ops create.
Provisioned(b, ops) ==
  \A k \in 1..Len(ops) :
    CASE ops[k].op = "ExchangeDeclare" -> ops[k].name \in b.exchanges
      [] ops[k].op = "QueueDeclare" ->
           QueueExists(b, ops[k].name) /\ b.qargs[ops[k].name] = ops[k].args
      [] ops[k].op = "QueueBind" -> <<ops[k].name, ops[k].key, ops[k].ex>> \in b.bindings
      [] OTHER -> TRUE

\* The calls ops of Setup are issued after a declaration of the original
\* queue and before Consume, and have taken effect once Consume is issued.
SetupOrdered(ops) ==
  LET IsSetupCall(o) == IsOneOf(ops, o) IN
  /\ \A s \in Positions(IsSetupCall) :
       /\ \E d \in Positions(IsDeclareOfQ) : d < s
       /\ \A c \in Positions(IsConsume) : s < c
  /\ (Positions(IsConsume) # {} \/ consuming \/ Len(dlv) > 0) =>
       Provisioned(broker, ops)

\* C9: every call of the strategy's Setup is issued after the declaration of
\* the original queue and before Consume; once Consume is issued, and so
\* whenever a delivery has reached the handler, the DLX, the wait queues and
\* the binding of the original queue exist.
C9_SetupOrder == SetupOrdered(SetupOpsOn[opts.strategy])

\* A delivery has reached the handler of an Exponential-Backoff consumer.
C9_Witness ==
  /\ opts.strategy.kind = "exponential" /\ opts.strategy.maxAttempts = 2
  /\ Len(dlv) > 0
  /\ Provisioned(broker, SetupOpsOn[opts.strategy])

\* ----------------------------------------------------------------- C10
\* C10: with EnableDLQ every declaration of the original queue that
\* ConsumeQueue issues comes after the three setupDLQ calls and carries
\* x-dead-letter-exchange = Q.failed.dlx and x-dead-letter-routing-key =
\* Q.failed; when it has succeeded, Q.failed.dlx and Q.failed exist and are
\* bound and the original queue has those arguments.
C10_DLQBeforeDeclare ==
  opts.enableDLQ =>
    /\ \A d \in Positions(IsDeclareOfQ) :
         /\ oplog[d].args = DLQArgsOnQ
         /\ SubSeq(oplog, 1, Len(DLQOpsOnQ)) = DLQOpsOnQ
         /\ d > Len(DLQOpsOnQ)
    /\ cq \in {"setup", "consume", "started"} =>
         /\ Provisioned(broker, DLQOpsOnQ)
         /\ QueueExists(broker, Q)
         /\ broker.qargs[Q] = DLQArgsOnQ

\* ConsumeQueue with EnableDLQ has declared the original queue.
C10_Witness ==
  /\ opts.enableDLQ
  /\ cq = "started"
  /\ Positions(IsDeclareOfQ) # {}
  /\ broker.qargs[Q]["x-dead-letter-exchange"] = <<"string", "Q.failed.dlx">>
  /\ broker.qargs[Q]["x-dead-letter-routing-key"] = <<"string", "Q.failed">>

\* ------------------------------------------------------------ C7
\* Channels ever created for a channel ID.
ChannelsFor(id) == {k \in 1..Len(gCh) : gCh[k].id = id}

\* The connection was connected, is still open, and nothing has failed:
\* no Close call, no channel closed, no broker call failed.
GoUndisturbed ==
  /\ ~gClosed
  /\ gFaults = 0
  /\ \A k \in 1..Len(gCh) : gCh[k].open

\* C7: on a connected Go Connection, however the callers of GetChannel for
\* one named channel ID interleave, at most one channel is ever created
\* for the ID, and every caller that returned while connected received
\* that one channel, which is the cached one.
C7_OneChannelPerID ==
  GoUndisturbed =>
    \A id \in ChannelIDs \ {""} :
      /\ Cardinality(ChannelsFor(id)) <= 1
      /\ \A r \in gRet :
           (r[1] = id /\ r[3]) =>
             /\ r[2] # 0
             /\ ChannelsFor(id) = {r[2]}
             /\ id \in DOMAIN gChannels
             /\ gChannels[id] = r[2]

\* Two callers both missed the first lookup for the same ID; one has
\* created the channel and returned it, the other is about to take the lock.
C7_Witness ==
  /\ GoUndisturbed
  /\ \E c \in Callers :
       /\ gPc[c] = "lock"
       /\ gReq[c] \in DOMAIN gChannels
       /\ <<gReq[c], gChannels[gReq[c]], TRUE>> \in gRet

\* ------------------------------------------------------------ C8
TsChannelsFor(id) == {k \in 1..Len(tCh) : tCh[k].id = id}

\* Nothing has failed on the TypeScript connection: no channel closed,
\* no broker call rejected.
TsUndisturbed ==
  /\ tFaults = 0
  /\ \A k \in 1..Len(tCh) : tCh[k].open

\* C8: on a connected TypeScript RabbitMQConnection, however the in-flight
\* getChannel calls for one named channel ID interleave, at most one
\* channel is ever created for the ID and every call resolves to it.
C8_OneChannelPerID ==
  TsUndisturbed =>
    \A id \in ChannelIDs \ {""} :
      /\ Cardinality(TsChannelsFor(id)) <= 1
      /\ \A r \in tRet : (r[1] = id /\ r[3]) => (r[2] # 0 /\ TsChannelsFor(id) = {r[2]})

\* ----------------------------------------------------------------- C11
\* The topology calls of a step of ConsumeQueue.
StepOps(step) ==
  CASE step = "dlq" -> DLQOpsOnQ
    [] step = "declare" -> <<QueueDeclareOp(Q, qoptArgs)>>
    [] step = "setup" -> SetupOpsOn[opts.strategy]
    [] OTHER -> <<>>

\* A ConsumeQueue call that returned an error has no consumer and no
\* handler call.
C11_NoConsumption == cq = "error" => (~consuming /\ Len(dlv) = 0)

\* A provisioning step goes on only when every call of it succeeded; a
\* failed call makes ConsumeQueue return the error; after the return the
\* call issues nothing more.
C11_FailStop ==
  /\ (cq \in {"dlq", "declare", "setup"} /\ cq' # cq) =>
       /\ faults' > faults => cq' = "error"
       /\ cq' # "error" => Provisioned(broker', StepOps(cq))
       /\ cq' = "error" => Positions(IsConsume)' = {}
  /\ cq = "error" => (cq' = "error" /\ oplog' = oplog /\ ~consuming' /\ dlv' = dlv)

\* C11: if DLQ provisioning, the declaration of the original queue or the
\* strategy's Setup fails, ConsumeQueue returns an error, Consume is not
\* issued and the handler is never invoked for that call.
C11_SetupFailure == []C11_NoConsumption /\ [][C11_FailStop]_vars

\* The strategy's Setup failed after the original queue was declared, with
\* a message waiting in the queue.
C11_Witness ==
  /\ cq = "error" /\ faults = 1
  /\ opts.strategy.kind # "none"
  /\ Positions(IsDeclareOfQ) # {}
  /\ oplog[Len(oplog)].op # "Consume"
  /\ Len(oplog) > 1 + (IF opts.enableDLQ THEN Len(DLQOpsOnQ) ELSE 0)
  /\ Len(pub) > 0

\* ----------------------------------------------------------------- C12
\* The loop is through with delivery t: the handler was called and returned,
\* and the delivery was acked or nacked (under NoAck a success sends nothing).
Processed(t) ==
  /\ Len(dlv) >= t
  /\ Finished(t)
  /\ dlv[t].res \in {"ok", "err"}
  /\ (~opts.noAck \/ dlv[t].res = "err") => dlv[t].acks # <<>>

\* processMessage returned on delivery t before the handler: GetChannel
\* failed, nothing was acked or nacked.
Skipped(t) ==
  /\ Len(dlv) >= t
  /\ Finished(t)
  /\ dlv[t].res = "skipped"
  /\ dlv[t].acks = <<>>

\* The goroutine without a delivery in hand is waiting for the next one.
C12_NeverStops == (cur = NoDelivery) <=> (lp = "idle")

\* C12 as stated: provided every handler call returns, every delivery
\* handed to the loop is eventually passed to the handler and then acked or
\* nacked.
C12_AsStated == \A t \in 1..MaxDeliveries : (Len(dlv) >= t) ~> Processed(t)

\* C12 amended: provided every handler call returns, every delivery handed
\* to the loop is eventually either passed to the handler and then acked or
\* nacked, or, when GetChannel fails at the start of processMessage (the
\* connection was closed), returned without a handler call and without ack
\* or nack; either way the loop then waits for the next delivery, whatever
\* the earlier deliveries ended with.
C12_LoopContinues ==
  /\ []C12_NeverStops
  /\ [](\A t \in 1..Len(dlv) : dlv[t].res = "skipped" => chanState = "gone")
  /\ \A t \in 1..MaxDeliveries : (Len(dlv) >= t) ~> (Processed(t) \/ Skipped(t))

\* A delivery was processed after an earlier one whose handler failed and
\* whose acknowledgment the broker answered with a channel error.
C12_Witness ==
  \E t1, t2 \in 1..Len(dlv) :
    /\ t1 < t2
    /\ dlv[t1].res = "err"
    /\ chanState = "errored"
    /\ Processed(t2)
    /\ lp = "idle"

\* ----------------------------------------------------------------- C13
\* Acknowledgments sent for delivery t.
AcksOf(d) == {d.acks[k] : k \in 1..Len(d.acks)}

\* Copies of message i the broker holds: in Q, in a wait queue, or
\* unacknowledged on the consumer's channel.
CopiesHeld(b, un, i) ==
  CopiesIn(b, Q, i) + SumCopies(b, WaitQueuesOn[opts.strategy], i)
    + Cardinality({t \in DOMAIN un : un[t].id = i})

DelayedRetry == opts.strategy.kind \in {"fixed", "exponential"} /\ ~opts.noAck

\* A failed delivery is acked only when HandleFailure had returned nil.
C13_AckAfterPublish ==
  DelayedRetry =>
    \A t \in 1..Len(dlv) :
      (dlv[t].res = "err" /\ "ack" \in AcksOf(dlv'[t]) /\ "ack" \notin AcksOf(dlv[t])) =>
        dlv[t].retry = "ok"

\* While the loop is on the retry path with a delivery, and after it acked
\* a delivery whose copy was published, the broker holds the message; a
\* delivered message is dropped only after a nack without requeue.
C13_Held ==
  DelayedRetry =>
    /\ (lp \in {"failed", "retried"} /\ WantsRetry(opts, [headers |-> dlv[cur.tag].headers]))
         => CopiesHeld(broker, unacked, cur.id) >= 1
    /\ \A t \in 1..Len(dlv) :
         dlv[t].id \in lost => \E u \in 1..Len(dlv) :
                                 dlv[u].id = dlv[t].id /\ "reject" \in AcksOf(dlv[u])

\* C13: on the Fixed-Delay and Exponential-Backoff retry path the original
\* delivery is acked only after the publish of the retry copy returned
\* success, and along the retry the broker holds the message in the
\* original queue (possibly unacknowledged) or in a wait queue: a close
\* between publish and ack can duplicate the message, not lose it.
C13_PublishThenAck == []C13_Held /\ [][C13_AckAfterPublish]_vars

\* The connection was closed between the publish and the ack: the broker
\* holds the message twice, requeued in Q and in the wait queue.
C13_Witness ==
  /\ DelayedRetry
  /\ chanState = "gone"
  /\ lp = "retried"
  /\ CopiesIn(broker, Q, cur.id) = 1
  /\ SumCopies(broker, WaitQueuesOn[opts.strategy], cur.id) = 1

\* ----------------------------------------------------------------- C14
\* The elements of a sequence.
Range(f) == {f[k] : k \in 1..Len(f)}

\* C14: for every delivery consumed from Q, however it was published,
\* HandleFailure of Fixed-Delay and Exponential-Backoff publishes the retry
\* copy into a wait queue that Setup(Q) provisioned: Q.wait for Fixed-Delay,
\* Q.wait.<attemptCount> for Exponential-Backoff.
C14_TargetProvisioned ==
  opts.strategy.kind \in {"fixed", "exponential"} =>
    \A t \in 1..Len(dlv) :
      dlv[t].retry # "none" =>
        /\ dlv[t].target \in Range(WaitQueuesOn[opts.strategy])
        /\ dlv[t].target = IF opts.strategy.kind = "fixed"
                           THEN FixedWaitQueueName(Q)
                           ELSE ExpWaitQueueName(Q, CountOf(t))

\* ----------------------------------------------------------------- C15
\* C15: the loop calls HandleFailure on a delivery only when ShouldRetry is
\* true for that delivery; so with Exponential-Backoff the index of the wait
\* queue published to is within 0..maxAttempts-1 and the queue is one of
\* those Setup created.
C15_GatedHandleFailure ==
  \A t \in 1..Len(dlv) :
    dlv[t].retry # "none" =>
      /\ opts.strategy.kind # "none"
      /\ dlv[t].res = "err"
      /\ ShouldRetry(opts.strategy, dlv[t].headers)
      /\ opts.strategy.kind = "exponential" =>
           /\ \E i \in 0..(opts.strategy.maxAttempts - 1) :
                dlv[t].target = ExpWaitQueueName(Q, i)
           /\ dlv[t].target \in Range(WaitQueuesOn[opts.strategy])
           /\ QueueExists(broker, dlv[t].target)

\* An Exponential-Backoff consumer published to its last wait queue and
\* then denied the delivery carrying x-retry-count = maxAttempts.
C15_Witness ==
  /\ opts.strategy.kind = "exponential" /\ opts.strategy.maxAttempts >= 2
  /\ \E t, u \in 1..Len(dlv) :
       /\ dlv[t].retry = "ok"
       /\ dlv[t].target = ExpWaitQueueName(Q, opts.strategy.maxAttempts - 1)
       /\ CountOf(u) = opts.strategy.maxAttempts
       /\ dlv[u].res = "err" /\ Finished(u) /\ dlv[u].retry = "none"

\* ----------------------------------------------------------------- C16
\* This step is the return of a Connect or Close call.
Returns(op) == gCalls' = gCalls + 1 /\ gLast'.n = gCalls' /\ gLast'.op = op

\* The close calls of a Close on the resources the Connection held.
CloseLogInOrder(log) ==
  LET named == DOMAIN gChannels
      n == Cardinality(named)
  IN
  /\ Len(log) = n + (IF gDefault # 0 THEN 1 ELSE 0) + (IF gConn # 0 THEN 1 ELSE 0)
  /\ \A i \in 1..n : log[i].kind = "named"
  /\ {log[i].id : i \in 1..n} = named
  /\ gDefault # 0 => log[n + 1] = Target("default", "")
  /\ gConn # 0 => log[Len(log)] = Target("link", "")

\* C16: a Close of a Connection that is not closed calls close on every
\* named channel, then on the default channel, then on the link, whichever
\* of these calls fail; afterwards none of them is open, both maps are
\* empty, conn and defaultChannel are nil, and the error returned lists
\* every close that failed.
C16_CloseStep ==
  (Returns("Close") /\ ~gClosed) =>
    /\ CloseLogInOrder(gLast'.log)
    /\ \A id \in DOMAIN gChannels : ~gCh'[gChannels[id]].open
    /\ gDefault # 0 => ~gCh'[gDefault].open
    /\ gConn # 0 => ~gLinks'[gConn]
    /\ gChannels' = <<>> /\ gTags' = <<>> /\ gConn' = 0 /\ gDefault' = 0
    /\ \A i \in DOMAIN gLast'.log :
         ~TargetOpen(gLast'.log[i]) => \E j \in DOMAIN gLast'.err :
                                         gLast'.err[j] = gLast'.log[i]
    /\ \A j \in DOMAIN gLast'.err : \E i \in DOMAIN gLast'.log :
         gLast'.err[j] = gLast'.log[i]
    /\ Len(gLast'.err) =
         Cardinality({i \in DOMAIN gLast'.log : ~TargetOpen(gLast'.log[i])})
         + (gFaults' - gFaults)

C16_CloseAll == [][C16_CloseStep]_vars

\* A Close went through a named channel, the default channel and the link
\* although closing the named channel failed.
C16_Witness ==
  /\ gLast.op = "Close" /\ gClosed
  /\ Len(gLast.log) = 3
  /\ gLast.err # <<>> /\ gLast.err[1].kind = "named"
  /\ gChannels = <<>> /\ gConn = 0 /\ gDefault = 0

\* ----------------------------------------------------------------- C17
\* C17: a Close of a Connection that an earlier Close already closed returns
\* nil, calls close on no channel and on no link, and changes no field of
\* the Connection, whether or not the earlier Close returned an error.
C17_CloseAgainStep ==
  (Returns("Close") /\ gClosed) =>
    /\ gLast'.err = <<>>
    /\ gLast'.log = <<>>
    /\ UNCHANGED <<gConn, gDefault, gChannels, gTags, gClosed, gLinks, gCh>>

C17_CloseIdempotent == [][C17_CloseAgainStep]_vars

\* A Close returned nil without closing anything, after the Close that
\* closed the Connection had returned errors.
C17_Witness ==
  /\ gClosed /\ gCloseErrs # <<>>
  /\ gLast.op = "Close" /\ gLast.log = <<>> /\ gLast.err = <<>>

\* ----------------------------------------------------------------- C18
\* Links that are established, and default channels established on them.
LinksUp == {k \in 1..Len(gLinks) : gLinks[k]}
DefaultsUp == {k \in 1..Len(gCh) : gCh[k].id = "" /\ gLinks[gCh[k].link]}

C18_ConnectAgainStep ==
  (Returns("Connect") /\ gConn # 0 /\ gDefault # 0) =>
    /\ gLast'.err = <<>>
    /\ ~gLast'.dialed
    /\ UNCHANGED <<gConn, gDefault, gLinks, gCh, gObs>>

C18_AtMostOne == Cardinality(LinksUp) <= 1 /\ Cardinality(DefaultsUp) <= 1

\* C18: a Connect on a Connection that holds a link and a default channel
\* returns nil without dialing or opening a channel; however the Connect
\* calls of several goroutines interleave, at most one link and one default
\* channel are established.
C18_ConnectIdempotent == []C18_AtMostOne /\ [][C18_ConnectAgainStep]_vars

\* A Connect returned nil on a Connection that an earlier Connect had
\* connected: one link was dialed.
C18_Witness ==
  /\ gLast.op = "Connect" /\ gLast.n >= 2 /\ gLast.err = <<>> /\ ~gLast.dialed
  /\ gConn = 1 /\ gDefault # 0 /\ ~gClosed
  /\ Len(gLinks) = 1 /\ gLinks[1]

\* ----------------------------------------------------------------- C19
\* C19: a Connect that fails at amqp.Dial, at conn.Channel or at channel.Qos
\* returns that error; the link and the channel it opened are closed; the
\* Connection holds no link and no default channel, so IsConnected is false
\* and GetChannel("") returns an error.
C19_ConnectFailsStep ==
  (Returns("Connect") /\ gLast'.err # <<>>) =>
    /\ gLast'.err[1].kind \in {"dial", "channel", "qos"}
    /\ gLast'.dialed <=> gLast'.err[1].kind # "dial"
    /\ \A k \in (Len(gLinks) + 1)..Len(gLinks') : ~gLinks'[k]
    /\ \A k \in (Len(gCh) + 1)..Len(gCh') : ~gCh'[k].open
    /\ gLast'.err[1].kind = "qos" => Len(gCh') = Len(gCh) + 1
    /\ gLast'.dialed => Len(gLinks') = Len(gLinks) + 1
    /\ gConn' = 0 /\ gDefault' = 0
    /\ ~IsConnected'
    /\ \A r \in gRet' \ gRet : r[1] = "" => r[2] = 0

C19_GetDefaultStep ==
  \A r \in gRet' \ gRet : (r[1] = "" /\ gDefault = 0) => r[2] = 0

C19_ConnectFailure == [][C19_ConnectFailsStep /\ C19_GetDefaultStep]_vars

\* A Connect failed at channel.Qos after it had dialed a link and opened a
\* channel, and a GetChannel("") returned an error.
C19_Witness ==
  /\ gLast.op = "Connect" /\ gLast.err = <<Target("qos", "")>>
  /\ Len(gLinks) = 1 /\ ~gLinks[1] /\ Len(gCh) = 1 /\ ~gCh[1].open
  /\ gConn = 0 /\ gDefault = 0
  /\ <<"", 0, FALSE>> \in gRet

\* ----------------------------------------------------------------- C20
\* The cache entries of the IDs in ids hold no channel whose close has been
\* observed: each is open, or its observer has not run yet.
NoObservedClosed(ids) ==
  \A id \in ids \cap DOMAIN gChannels :
    \/ gCh[gChannels[id]].open
    \/ \E o \in gObs : o[1] = gChannels[id]

\* A GetChannel for one of the IDs in ids returns no channel whose close
\* has been observed.
NoObservedReturned(ids) ==
  \A r \in gRet' \ gRet :
    (r[1] \in ids /\ r[2] # 0) =>
      \/ gCh'[r[2]].open
      \/ \E o \in gObs' : o[1] = r[2]

\* A close observer that runs leaves c.defaultChannel as it is.
DefaultKept == (gObs' # gObs /\ gObs' \subseteq gObs) => gDefault' = gDefault

\* C20: once the close of a named channel is observed its entry is out of
\* the cache, so a later GetChannel with its ID returns a channel created
\* after that and never the closed one; a close observer never removes the
\* default channel.
C20_ObservedRemoved ==
  /\ []NoObservedClosed(ChannelIDs \ {""})
  /\ [][NoObservedReturned(ChannelIDs \ {""}) /\ DefaultKept]_vars

\* The same for the named channels whose ID is not "default".
C20_ExceptDefaultID ==
  /\ []NoObservedClosed(ChannelIDs \ {"", "default"})
  /\ [][NoObservedReturned(ChannelIDs \ {"", "default"}) /\ DefaultKept]_vars

\* A channel was created for an ID whose first channel was closed, observed
\* and removed.
C20_Recreated ==
  \E id \in DOMAIN gChannels :
    /\ gCh[gChannels[id]].open
    /\ \E k \in ChannelsFor(id) : k < gChannels[id] /\ ~gCh[k].open
    /\ <<id, gChannels[id], TRUE>> \in gRet

\* ----------------------------------------------------------------- C21
\* The CancelConsumer calls that returned nil for the started consumer.
CancelledAt ==
  {cancels[i].dlvAt : i \in {j \in DOMAIN cancels :
                               /\ cancels[j].ok
                               /\ cancels[j].tag = ConsumerTagOf(copts)
                               /\ cancels[j].running}}

\* C21: once CancelConsumer has returned nil for the consumer, no further
\* delivery is handed to the handler, on whichever channel the consumer was
\* started.
C21_NoDeliveryAfterCancel == \A n \in CancelledAt : Len(dlv) = n

\* The same for a consumer started on the default channel.
C21_OnDefaultChannel == copts.channelID = "" => C21_NoDeliveryAfterCancel

\* A consumer on the default channel was cancelled while a delivery was with
\* the handler, and that delivery was then acknowledged.
C21_InFlightCompleted ==
  /\ copts.channelID = "" /\ ~consuming
  /\ \E n \in CancelledAt : n >= 1 /\ Len(dlv) = n /\ Finished(n) /\ dlv[n].acks # <<>>
  /\ \E m \in 1..MaxMsgs : CopiesIn(broker, Q, m) > 0

\* ----------------------------------------------------------------- C22
\* GetConsumerTag(queue), under c.mu.RLock().
GetConsumerTag(queue) == IF queue \in DOMAIN gTags THEN gTags[queue] ELSE ""

\* C22: after ConsumeQueue returned nil, and until the Connection is closed,
\* GetConsumerTag(queue) returns the tag of the started consumer.
C22_TagRegistered ==
  (cq = "started" /\ chanState # "gone") => GetConsumerTag(Q) = ConsumerTagOf(copts)

\* ----------------------------------------------------------------- C23
\* C23: CancelConsumer(conn, queue) with no tag registered for the queue
\* issues no cancel and returns nil; with a tag registered it issues a
\* cancel for that tag, and the registration is removed if and only if the
\* cancel succeeded.
C23_CancelStep ==
  (Len(cancels') = Len(cancels) + 1 /\ chanState # "gone") =>
    LET r == cancels'[Len(cancels')] IN
    IF GetConsumerTag(r.tag) = ""
    THEN ~r.sent /\ r.ok /\ UNCHANGED <<gTags, consuming>>
    ELSE /\ r.sent
         /\ r.ok => r.tag \notin DOMAIN gTags'
         /\ ~r.ok => UNCHANGED gTags

C23_CancelByQueue == [][C23_CancelStep]_vars

\* ----------------------------------------------------------------- C24
\* This step is the return of a call of one of the functions in fns.
PubReturns(fns) == plast'.n = plast.n + 1 /\ plast'.fn \in fns

SameTopology ==
  /\ broker'.exchanges = broker.exchanges
  /\ broker'.qargs = broker.qargs
  /\ broker'.bindings = broker.bindings

\* C24: PublishToQueue and PublishToQueueRaw declare the queue only with
\* options.EnableQueueDeclare set, and then before they publish, so that the
\* message reaches the queue; without it they issue no declaration and
\* leave exchanges, queues and bindings as they are.
C24_DeclareStep ==
  PubReturns({"PublishToQueue", "PublishToQueueRaw"}) =>
    IF plast'.declare /\ plast'.err # "channel"
    THEN /\ \E q \in PubQueues : plast'.ops = <<QueueDeclareOp(q, EmptyTable)>>
         /\ plast'.sent =>
              /\ plast'.ops[1].name = pub'[Len(pub')].rk
              /\ QueueExists(broker', plast'.ops[1].name)
              /\ Len(pub') \notin lost'
              /\ CopiesIn(broker', plast'.ops[1].name, Len(pub')) = 1
    ELSE plast'.ops = <<>> /\ SameTopology

C24_DeclareOnlyIfEnabled == [][C24_DeclareStep]_vars

\* PublishToQueueRaw with EnableQueueDeclare declared a queue nobody had
\* declared and the message is in it.
C24_Witness ==
  /\ plast.fn = "PublishToQueueRaw" /\ plast.declare /\ plast.sent /\ plast.n = 1
  /\ QueueExists(broker, "R") /\ CopiesIn(broker, "R", 1) = 1

\* ----------------------------------------------------------------- C25
\* C25: PublishToQueue with the default options to a queue that does not
\* exist returns nil; the message is dropped and is in no queue.
C25_DropStep ==
  (/\ PubReturns({"PublishToQueue"})
   /\ ~plast'.declare /\ plast'.sent
   /\ ~QueueExists(broker, pub'[Len(pub')].rk)) =>
    /\ plast'.err = "none"
    /\ lost' = lost \cup {Len(pub')}
    /\ broker' = broker

C25_SilentDrop == [][C25_DropStep]_vars

\* PublishToQueue returned nil for a message to a queue that does not exist.
C25_Witness ==
  /\ plast.fn = "PublishToQueue" /\ ~plast.declare /\ plast.sent /\ plast.err = "none"
  /\ pub[Len(pub)].rk = "R" /\ ~QueueExists(broker, "R")
  /\ Len(pub) \in lost
  /\ \A q \in DOMAIN broker.qmsgs : CopiesIn(broker, q, Len(pub)) = 0

\* ----------------------------------------------------------------- C26
\* C26: PublishToQueue and PublishToExchange called with a payload that
\* json.Marshal rejects return an error and publish no message.
C26_MarshalStep ==
  (PubReturns({"PublishToQueue", "PublishToExchange"}) /\ ~plast'.payloadOk) =>
    /\ plast'.err # "none"
    /\ ~plast'.sent
    /\ pub' = pub /\ lost' = lost
    /\ broker'.qmsgs = [q \in DOMAIN broker'.qmsgs |->
                          IF q \in DOMAIN broker.qmsgs THEN broker.qmsgs[q] ELSE <<>>]

C26_MarshalError == [][C26_MarshalStep]_vars

\* PublishToExchange declared the exchange, then returned the marshal
\* error; nothing was published.
C26_Witness ==
  /\ plast.fn = "PublishToExchange" /\ plast.err = "marshal" /\ ~plast.payloadOk
  /\ plast.ops # <<>> /\ AppExchange \in broker.exchanges
  /\ pub = <<>>

\* ------------------------------------------------------------------ C27
\* Setup calls that returned nil.
SetupsDone == {i \in DOMAIN slog : slog[i].fn = "Setup" /\ slog[i].ok}

\* The queues the broker holds besides the original queue.
WaitQueues == (DOMAIN broker.qargs) \ {"Q"}

\* Queue q dead-letters to Q.dlx with routing key Q after ttl milliseconds.
IsWaitQueue(q, ttl) ==
  /\ q \in DOMAIN broker.qargs
  /\ DOMAIN broker.qargs[q] =
       {"x-dead-letter-exchange", "x-dead-letter-routing-key", "x-message-ttl"}
  /\ broker.qargs[q]["x-dead-letter-exchange"] = <<"string", "Q.dlx">>
  /\ broker.qargs[q]["x-dead-letter-routing-key"] = <<"string", "Q">>
  /\ broker.qargs[q]["x-message-ttl"] = <<"int32", ttl>>

\* The TTL the broker holds for queue q.
TTLOf(q) == broker.qargs[q]["x-message-ttl"][2]

\* The wait queues, their TTLs, their dead-letter route and the binding of
\* the original queue after a Setup that returned nil.
WaitTopology ==
  LET s == opts.strategy IN
  /\ s.kind = "fixed" =>
       /\ WaitQueues = {"Q.wait"}
       /\ IsWaitQueue("Q.wait", s.delayMs)
  /\ s.kind = "exponential" =>
       /\ WaitQueues = {"Q.wait." \o ToString(k) : k \in 0..(s.maxAttempts - 1)}
       /\ Cardinality(WaitQueues) = s.maxAttempts
       /\ \A k \in 0..(s.maxAttempts - 1) :
            IsWaitQueue("Q.wait." \o ToString(k), GetDelay(s, k))
  /\ s.kind \in {"fixed", "exponential"} =>
       /\ "Q.dlx" \in broker.exchanges
       /\ <<"Q", "Q", "Q.dlx">> \in broker.bindings

\* No two wait queues of Exponential-Backoff have the same TTL.
DistinctTTLs ==
  opts.strategy.kind = "exponential" =>
    \A j, k \in 0..(opts.strategy.maxAttempts - 1) :
      j # k => TTLOf("Q.wait." \o ToString(j)) # TTLOf("Q.wait." \o ToString(k))

\* The TTLs of Exponential-Backoff do not decrease from one wait queue to
\* the next, and two of them are equal only when the multiplier is 1, when
\* both are maxDelayMs, or when they differ by less than a millisecond
\* before truncation.
OrderedTTLs ==
  LET s == opts.strategy IN
  (s.kind = "exponential" /\ s.multNum >= s.multDen) =>
    \A j, k \in 0..(s.maxAttempts - 1) :
      j < k =>
        /\ TTLOf("Q.wait." \o ToString(j)) <= TTLOf("Q.wait." \o ToString(k))
        /\ TTLOf("Q.wait." \o ToString(j)) = TTLOf("Q.wait." \o ToString(k)) =>
             \/ s.multNum = s.multDen
             \/ TTLOf("Q.wait." \o ToString(k)) = s.maxDelayMs
             \/ s.initialDelayMs * Pow(s.multNum, k) - s.initialDelayMs * Pow(s.multNum, j)
                  * Pow(s.multDen, k - j) < Pow(s.multDen, k)

DelayCalls ==
  {i \in DOMAIN slog : slog[i].fn = "GetDelay" /\ opts.strategy.kind = "exponential"}

\* min(initialDelayMs * multiplier^attempt, maxDelayMs), truncated toward
\* zero.
DelayFormula(s, attempt) ==
  LET x == DelayDigits(s, attempt) IN
  IF s.multDen = 1 /\ (x.over \/ x.l2 > 0 \/ x.l1 >= 1024) THEN s.maxDelayMs
  ELSE LET d == (s.initialDelayMs * Pow(s.multNum, attempt)) \div Pow(s.multDen, attempt)
       IN IF d < s.maxDelayMs THEN d ELSE s.maxDelayMs

\* The delays the README lists for initialDelayMs = 1000, multiplier = 2,
\* maxDelayMs = 60000.
ReadmeDelays == (0 :> 1000) @@ (1 :> 2000) @@ (2 :> 4000) @@ (3 :> 8000) @@ (4 :> 16000)
                @@ (10 :> 60000)

\* What the claim says of the i-th call, the calls before and after it
\* included.
DelayAsStated(i) ==
  LET s == opts.strategy
      r == slog[i]
  IN /\ ~r.wrapped
     /\ r.val = DelayFormula(s, r.attempt)
     /\ r.val <= s.maxDelayMs
     /\ (s.initialDelayMs = 1000 /\ s.multNum = 2 /\ s.multDen = 1 /\ s.maxDelayMs = 60000
         /\ r.attempt \in DOMAIN ReadmeDelays) => r.val = ReadmeDelays[r.attempt]
     /\ s.multNum >= s.multDen =>
          \A j \in DelayCalls :
            slog[j].attempt <= r.attempt => (~slog[j].wrapped /\ slog[j].val <= r.val)

\* C28 as stated: for every attempt >= 0, Exponential-Backoff GetDelay
\* returns min(initialDelayMs * multiplier^attempt, maxDelayMs) truncated
\* toward zero: 1000, 2000, 4000, 8000, 16000 for attempts 0..4 and 60000 for
\* attempt 10 of the README's configuration; never more than maxDelayMs and,
\* for multiplier >= 1, never less than for a smaller attempt.
C28_DelayFormula == \A i \in DelayCalls : DelayAsStated(i)

\* C28 where it holds: the same for the calls whose uncapped delay is below
\* 2^63.
C28_BelowIntRange ==
  \A i \in DelayCalls :
    (opts.strategy.multDen = 1 => ~DelayDigits(opts.strategy, slog[i].attempt).over)
      => (~slog[i].wrapped /\ slog[i].val = DelayFormula(opts.strategy, slog[i].attempt)
          /\ slog[i].val <= opts.strategy.maxDelayMs)

\* GetDelay(10) = 60000 after GetDelay(4) = 16000 on the README's
\* configuration.
C28_Capped ==
  /\ Len(slog) = 2
  /\ slog[1].fn = "GetDelay" /\ slog[1].attempt = 4 /\ slog[1].val = 16000
  /\ slog[2].fn = "GetDelay" /\ slog[2].attempt = 10 /\ slog[2].val = 60000

\* GetDelay(54) of the README's configuration returned the smallest int.
C28_Wrapped ==
  /\ opts.strategy.initialDelayMs = 1000 /\ opts.strategy.maxDelayMs = 60000
  /\ \E i \in DelayCalls : slog[i].attempt = 54 /\ slog[i].wrapped
  /\ \A i \in DelayCalls : slog[i].attempt = 53 => slog[i].val = 60000

\* ------------------------------------------------------------------ C29
\* A Setup call returns after an earlier one returned nil, no call of this
\* one failing in transit: it returns nil and the broker's exchanges, queues
\* with their arguments, and bindings are what they were.
C29_SetupAgainStep ==
  (/\ Len(slog') = Len(slog) + 1
   /\ slog'[Len(slog')].fn = "Setup"
   /\ SetupsDone # {}
   /\ faults' = faults)
  => /\ slog'[Len(slog')].ok
     /\ broker'.exchanges = broker.exchanges
     /\ broker'.qargs = broker.qargs
     /\ broker'.bindings = broker.bindings

HeldCopies(b, un, j) ==
  UNION {{<<q, b.qmsgs[q][k].headers>> :
            k \in {x \in 1..Len(b.qmsgs[q]) : b.qmsgs[q][x].id = j}} :
          q \in DOMAIN b.qmsgs}
  \cup {<<"unacked", un[t].headers>> : t \in {x \in DOMAIN un : un[x].id = j}}

\* The attempt count a header table carries.
CountIn(headers) == GetRetryMetadata(headers).AttemptCount

\* A step of the consumer on the delivery it holds or takes.
HandlingStep == lp' # lp

\* The message that step is about.
HandledID == IF lp = "idle" THEN cur'.id ELSE cur.id

\* The step leaves every other message where it was, with its headers, and
\* leaves what was recorded of its deliveries.
OthersUntouched ==
  \A j \in (1..Len(pub)) \ {HandledID} :
    /\ HeldCopies(broker', unacked', j) = HeldCopies(broker, unacked, j)
    /\ (j \in lost') = (j \in lost)
    /\ \A t \in DOMAIN dlv : dlv[t].id = j => dlv'[t] = dlv[t]

\* The step out of "failed" decides and stamps from the delivery's own
\* headers and the configuration.
OwnHeadersDecide ==
  (lp = "failed" /\ opts.strategy.kind # "none") =>
    LET own == dlv[cur.tag].headers
        d == dlv'[cur.tag]
    IN /\ (d.retry # "none") = (CountIn(own) < opts.strategy.maxAttempts)
       /\ d.retry # "none" =>
            /\ CountIn(d.sent) = CountIn(own) + 1
            /\ opts.strategy.kind = "fixed" => d.target = "Q.wait"
            /\ opts.strategy.kind = "exponential" =>
                 d.target = "Q.wait." \o ToString(CountIn(own))

C30_StatelessStep ==
  /\ opts' = opts
  /\ HandlingStep => (OthersUntouched /\ OwnHeadersDecide)

\* C30: no step modifies the strategy object; the retry decision, the stamped
\* attempt count and the publish target of a delivery follow from its own
\* headers and the configuration, and handling one message, in any
\* interleaving with another, changes neither the attempt count nor the
\* recorded outcome of the other.
C30_Stateless == [][C30_StatelessStep]_vars

\* Two messages handled in turn: the first fails and waits with count 1, the
\* second, published with count 2, fails and waits with count 3, then the
\* first comes back and fails with count 2.
C30_Witness ==
  \E a, b, c \in DOMAIN dlv :
    /\ a < b /\ b < c
    /\ dlv[a].id = dlv[c].id /\ dlv[a].id # dlv[b].id
    /\ dlv[a].retry = "ok" /\ dlv[b].retry = "ok" /\ dlv[c].retry = "ok"
    /\ CountIn(dlv[a].sent) = 1
    /\ CountIn(dlv[b].sent) = 3
    /\ CountIn(dlv[c].sent) = 2

\* ------------------------------------------------------------------ C32
\* Deliveries processMessage has returned from.
Returned == {t \in DOMAIN dlv : ~(t = cur.tag /\ lp # "idle")}

\* C32 as stated: with NoAck false, whatever the strategy, every delivery
\* gets exactly one of ack, nack with requeue, nack without requeue for its
\* delivery tag, never two.
C32_OneDecision ==
  ~opts.noAck =>
    \A t \in DOMAIN dlv :
      /\ Len(dlv[t].acks) <= 1
      /\ (t \in Returned /\ dlv[t].res # "skipped") => Len(dlv[t].acks) = 1

\* C32 where it holds: the same for no strategy, Fixed-Delay and
\* Exponential-Backoff.
C32_ExceptImmediate ==
  (~opts.noAck /\ opts.strategy.kind # "immediate") =>
    \A t \in DOMAIN dlv :
      /\ Len(dlv[t].acks) <= 1
      /\ (t \in Returned /\ dlv[t].res # "skipped") => Len(dlv[t].acks) = 1

\* A delivery of an Immediate consumer was nacked with requeue by
\* HandleFailure and then acked by processMessage.
C32_TwoDecisions ==
  /\ ~opts.noAck
  /\ opts.strategy.kind = "immediate"
  /\ \E t \in Returned : dlv[t].acks = <<"requeue", "ack">>

\* ------------------------------------------------------------------ C33
\* processMessage returns from a delivery whose HandleFailure returned an
\* error, the publish to the wait queue having failed.
ReturnsAfterRetryError ==
  /\ opts.strategy.kind \in {"fixed", "exponential"}
  /\ lp # "idle"
  /\ lp' = "idle"
  /\ cur.tag \in DOMAIN dlv
  /\ dlv[cur.tag].retry = "err"

\* Message j is in the dead-letter queue of Q.
InDLQ(b, j) ==
  /\ QueueExists(b, "Q.failed")
  /\ \E k \in 1..Len(b.qmsgs["Q.failed"]) : b.qmsgs["Q.failed"][k].id = j

\* The one decision of that delivery is the nack without requeue.
NackedOnly == dlv'[cur.tag].acks = <<"reject">>

\* C33 as stated: when HandleFailure returned an error the loop nacks the
\* delivery without requeue and does not ack it, so with DLQ enabled the
\* message goes to Q.failed; it is not dropped and not left unacknowledged.
C33_AsStatedStep ==
  ReturnsAfterRetryError =>
    /\ NackedOnly
    /\ opts.enableDLQ =>
         /\ InDLQ(broker', cur.id)
         /\ cur.id \notin lost'
         /\ cur.tag \notin DOMAIN unacked'
C33_AsStated == [][C33_AsStatedStep]_vars

\* C33, amended: the loop nacks the delivery without requeue and does not ack
\* it; the message goes to Q.failed when DLQ is enabled and the nack reaches
\* the broker, which needs NoAck false and the channel still open.  On a
\* closed channel the nack fails as the publish did and changes nothing at
\* the broker, which requeued the message to Q when the channel closed.
C33_NackStep ==
  ReturnsAfterRetryError =>
    /\ NackedOnly
    /\ (opts.enableDLQ /\ ~opts.noAck /\ chanState = "open") =>
         /\ InDLQ(broker', cur.id)
         /\ cur.id \notin lost'
         /\ cur.tag \notin DOMAIN unacked'
    /\ ChanDown => (broker' = broker /\ unacked' = unacked /\ ~InDLQ(broker', cur.id))
C33_NackOnRetryError == [][C33_NackStep]_vars

\* The publish to the wait queue failed on an open channel of a consumer with
\* DLQ: the delivery was nacked without requeue and the message is in
\* Q.failed.
C33_Witness ==
  /\ opts.enableDLQ /\ ~opts.noAck
  /\ \E t \in Returned :
       /\ dlv[t].retry = "err"
       /\ dlv[t].acks = <<"reject">>
       /\ InDLQ(broker, dlv[t].id)

\* The publish failed because the connection was closed: the nack failed too
\* and the message is back in Q, not in Q.failed.
C33_Requeued ==
  /\ opts.enableDLQ /\ ~opts.noAck
  /\ chanState = "gone"
  /\ \E t \in Returned :
       /\ dlv[t].retry = "err"
       /\ dlv[t].acks = <<"reject">>
       /\ ~InDLQ(broker, dlv[t].id)
       /\ \E k \in 1..Len(broker.qmsgs[Q]) : broker.qmsgs[Q][k].id = dlv[t].id

\* ------------------------------------------------------------------ C34
\* C34 as stated: a consumer started with NoAck = true never sends an ack or
\* a nack for any delivery, on the success path and on every failure path.
C34_NoAckSilent == opts.noAck => \A t \in DOMAIN dlv : dlv[t].acks = <<>>

\* C34 where it holds: with NoAck = true a delivery whose handler returned
\* nil gets neither ack nor nack.
C34_SuccessPath ==
  opts.noAck => \A t \in DOMAIN dlv : dlv[t].res = "ok" => dlv[t].acks = <<>>

\* With NoAck = true and no strategy, a delivery whose handler failed was
\* nacked without requeue and the broker raised a channel exception.
C34_NackSent ==
  /\ opts.noAck
  /\ opts.strategy.kind = "none"
  /\ chanState \in {"errored", "closed"}
  /\ \E t \in Returned : dlv[t].res = "err" /\ dlv[t].acks = <<"reject">>

\* With NoAck = true and Fixed-Delay, a delivery whose retry was scheduled
\* was acked.
C34_AckSent ==
  /\ opts.noAck
  /\ opts.strategy.kind = "fixed"
  /\ \E t \in Returned : dlv[t].retry = "ok" /\ dlv[t].acks = <<"ack">>

\* ------------------------------------------------------------------ C35
\* Every message the producer published had no headers.
PlainProducer == \A i \in DOMAIN pub : pub[i].headers = EmptyTable

\* The headers of the copies the broker holds: in its queues and
\* unacknowledged.
HeadersIn(q) == {broker.qmsgs[q][k].headers : k \in 1..Len(broker.qmsgs[q])}
AllCopies ==
  UNION {HeadersIn(q) : q \in DOMAIN broker.qmsgs}
  \cup {unacked[t].headers : t \in DOMAIN unacked}

\* C35: for a Fixed-Delay or Exponential-Backoff consumer fed with messages
\* published without retry headers, every copy of a message, in the original
\* queue, a wait queue or the DLQ, carries an x-retry-count between 0 and
\* maxAttempts (an absent header reads as 0), and a message waiting in
\* Q.wait.<i> carries x-retry-count = i + 1.
C35_CountsBounded ==
  (opts.strategy.kind \in {"fixed", "exponential"} /\ PlainProducer) =>
    /\ \A h \in AllCopies :
         /\ CountIn(h) \in 0..opts.strategy.maxAttempts
         /\ Has(h, "x-retry-count") => h["x-retry-count"][1] = "int32"
    /\ opts.strategy.kind = "exponential" =>
         \A i \in 0..(opts.strategy.maxAttempts - 1) :
           ("Q.wait." \o ToString(i)) \in DOMAIN broker.qmsgs =>
             \A h \in HeadersIn("Q.wait." \o ToString(i)) : CountIn(h) = i + 1

\* An Exponential-Backoff consumer with three attempts: a message published
\* without headers waits in Q.wait.1 with count 2.
C35_Witness ==
  /\ opts.strategy.kind = "exponential"
  /\ opts.strategy.maxAttempts = 3
  /\ PlainProducer
  /\ "Q.wait.1" \in DOMAIN broker.qmsgs
  /\ \E h \in HeadersIn("Q.wait.1") : CountIn(h) = 2

\* ------------------------------------------------------------------ C38
\* processMessage is through with delivery t: it skipped it, issued its ack
\* or nack, or returned from the handler of an auto-ack consumer.
Settled(t) ==
  \/ dlv[t].res = "skipped"
  \/ dlv[t].acks # <<>>
  \/ opts.noAck /\ dlv[t].res = "ok"

\* The goroutine takes a delivery only when it holds none and is through
\* with every earlier one; while it is inside processMessage the deliveries
\* it has taken stay as they are in number.
C38_TakeStep ==
  /\ Len(dlv') > Len(dlv) => (lp = "idle" /\ \A t \in DOMAIN dlv : Settled(t))
  /\ lp # "idle" => Len(dlv') = Len(dlv)

\* C38: for one ConsumeQueue call at most one handler invocation is in
\* flight: the handler of the next delivery starts only after the previous
\* handler returned and its ack or nack (and any HandleFailure publish) was
\* issued, so deliveries are processed in the order of delivery and a handler
\* that does not return holds back every later delivery.
C38_OneAtATime == [][C38_TakeStep]_vars

\* The handler of the second delivery runs, the first delivery is finished,
\* and another message waits in Q behind it.
C38_Witness ==
  /\ Len(dlv) = 2
  /\ lp = "handler"
  /\ cur.tag = 2
  /\ Settled(1)
  /\ consuming
  /\ broker.qmsgs[Q] # <<>>

\* ------------------------------------------------------------------ C36
\* Every open named channel is the one cached under its ID.
OpenNamedCached ==
  \A k \in 1..Len(gCh) :
    (gCh[k].open /\ gCh[k].id # "") =>
      (gCh[k].id \in DOMAIN gChannels /\ gChannels[gCh[k].id] = k)

\* A close observer leaves the cache entry of every channel but its own.
OwnEntryOnly ==
  \A o \in gObs \ gObs' :
    \A id \in DOMAIN gChannels :
      gChannels[id] # o[1] => (id \in DOMAIN gChannels' /\ gChannels'[id] = gChannels[id])

\* The named channels a Close call finds open and cached are all in its
\* close calls.
CloseTakesOpen ==
  Returns("Close") =>
    \A k \in 1..Len(gCh) :
      (gCh[k].open /\ gCh[k].id # "" /\ ~gClosed) => ~gCh'[k].open

\* C36 as stated: a close observer removes from the cache only the channel
\* whose close it observed; under any interleaving of Close, Connect,
\* GetChannel and channel-close events an observer of an older channel never
\* removes a newer open channel cached under the same ID, so every open named
\* channel stays in the cache and is closed by the next Close.
C36_OwnChannelOnly ==
  /\ []OpenNamedCached
  /\ [][OwnEntryOnly /\ CloseTakesOpen]_vars

\* C36 where it holds: as long as Close has not run, the cache holds every
\* open named channel.
C36_BeforeClose == ~gClosed => OpenNamedCached

\* The first channel "a" was closed by Close; after Connect and
\* GetChannel("a") a new channel is open on the new link, and the observer of
\* the first one has removed it from the cache.
C36_NewerRemoved ==
  /\ Len(gCh) >= 4
  /\ gCh[4].id = "a" /\ gCh[4].open /\ gCh[4].link = 2
  /\ "a" \notin DOMAIN gChannels
  /\ <<2, "a">> \notin gObs
  /\ <<"a", 4, TRUE>> \in gRet

\* The start of ReuseSpec as GoSpec reaches it.
C36_StartReached ==
  /\ gConn = 1 /\ gDefault = 1 /\ ~gClosed
  /\ gChannels = ("a" :> 2)
  /\ gLinks = <<TRUE>>
  /\ gCh = <<NewChannel("", 1), NewChannel("a", 1)>>
  /\ gObs = {<<1, HandlerID("")>>, <<2, HandlerID("a")>>}
  /\ gRet = {<<"a", 2, TRUE>>}

\* ------------------------------------------------------------------ C37
\* The Connection holds a link and a default channel.
HoldsLink == gConn # 0 /\ gDefault # 0

\* C37 as stated: a Connection can be used again after Close: when a Connect
\* has returned nil IsConnected is true, a Close then closes the link and the
\* channels that Connect established, and in every state IsConnected is true
\* exactly when the Connection holds a link and a default channel.
C37_ReusableStep ==
  /\ (Returns("Connect") /\ gLast'.err = <<>>) => IsConnected'
  /\ (Returns("Close") /\ HoldsLink) => (~gLinks'[gConn] /\ ~gCh'[gDefault].open)
C37_Reusable ==
  /\ [](IsConnected <=> HoldsLink)
  /\ [][C37_ReusableStep]_vars

\* C37 where it holds: on a Connection that Close has not been called on.
C37_BeforeCloseStep ==
  ~gClosed =>
    /\ (Returns("Connect") /\ gLast'.err = <<>>) => IsConnected'
    /\ (Returns("Close") /\ HoldsLink) => (~gLinks'[gConn] /\ ~gCh'[gDefault].open)
C37_BeforeClose ==
  /\ [](~gClosed => (IsConnected <=> HoldsLink))
  /\ [][C37_BeforeCloseStep]_vars

\* After Close and a Connect that returned nil, a second Close has returned
\* nil without a close call: the new link and its default channel are open
\* and still held, and IsConnected is false.
C37_Leaked ==
  /\ gLast.op = "Close" /\ gLast.log = <<>> /\ gLast.err = <<>>
  /\ gConn = 2 /\ gLinks[2]
  /\ gDefault # 0 /\ gCh[gDefault].open
  /\ ~IsConnected



\* ------------------------------------------------------------------ C31
\* The messages the broker has of queue Q: waiting, or delivered and
\* unacknowledged.
TsInBroker == Len(tq) + Cardinality({i \in DOMAIN tdlv : tdlv[i].held})

\* The passive check caller c awaits succeeds: the broker has the queue and
\* the channel the check went out on is open.
CheckSucceeds(c) ==
  /\ ppc[c] = "checking"
  /\ preq[c].queue \in TsBrokerQueues
  /\ dchan = "open" /\ preq[c].gen = dgen

C31_CacheStep ==
  /\ \A q \in checkedQueues' \ checkedQueues :
       \E c \in Callers : CheckSucceeds(c) /\ preq[c].queue = q /\ ppc'[c] = "idle"
  /\ \A c \in Callers :
       (ppc[c] = "checking" /\ ppc'[c] = "idle" /\ ~CheckSucceeds(c))
         => /\ checkedQueues' = checkedQueues
            /\ tlast'.op = "publishToQueue" /\ tlast'.err # "" /\ ~tlast'.sent
            /\ TsInBroker' = TsInBroker
  /\ \A c \in Callers :
       (ppc[c] = "idle" /\ ppc'[c] = "checking") => preq'[c].queue \notin checkedQueues
  /\ ~(checkedQueues \subseteq checkedQueues') => tlast'.op = "clearQueueCache"
  /\ tlast'.op \in {"close", "channelLost", "connect"} => checkedQueues' = checkedQueues

\* C31: a name enters checkedQueues only in the step in which a passive
\* check of that queue succeeds; a failed check leaves the cache as it was
\* and publishToQueue fails with nothing sent; no check is issued for a
\* name that is cached; and names leave the cache only in clearQueueCache,
\* never in close or when the channel is lost.
C31_QueueCache == [][C31_CacheStep]_vars

\* Q was cached, the connection closed and opened again with Q still
\* cached, and a publish to a queue the broker lacks failed on its check.
C31_Witness ==
  /\ checkedQueues = {Q}
  /\ dgen = 2
  /\ tlast = [op |-> "publishToQueue", queue |-> "R", err |-> "Queue does not exist",
              sent |-> FALSE]


\* ------------------------------------------------------------------ C39
\* The deliveries whose callback made its decision.
TsSettled == {i \in DOMAIN tdlv : tdlv[i].st # "running"}

\* C39: with noAck false every delivery gets exactly one call, ack when
\* the handler resolved and nack when the body was not JSON or the handler
\* rejected; with noAck true it gets none.
C39_ExactlyOne ==
  \A i \in TsSettled :
    IF tNoAck THEN tdlv[i].calls = <<>>
    ELSE IF tdlv[i].st = "resolved" THEN tdlv[i].calls = <<"ack">>
    ELSE tdlv[i].calls = <<"nack">>

\* Delivery i is decided in this step.
DecidedNow(i) ==
  /\ i \in DOMAIN tdlv'
  /\ tdlv'[i].st # "running"
  /\ i \in DOMAIN tdlv => tdlv[i].st = "running"

C39_WhileOpenStep ==
  \A i \in 1..MaxTsDeliveries :
    DecidedNow(i) =>
      LET d == tdlv'[i]
      IN /\ tNoAck => d.calls = <<>> /\ d.reached = <<>>
         /\ (~tNoAck /\ d.up) =>
              \/ d.st = "resolved" /\ d.calls = <<"ack">> /\ d.reached = <<"ack">>
              \/ /\ d.st \in {"rejected", "SyntaxError"}
                 /\ d.calls = <<"nack">> /\ d.reached = <<"nack">>
                 /\ tq' # <<>> /\ Head(tq') = d.body
         /\ (~tNoAck /\ ~d.up) =>
              /\ d.reached = <<>>
              /\ d.calls = IF d.st = "resolved" THEN <<"ack", "nack">> ELSE <<"nack">>
              /\ d.body \in Range(tq')

\* While the consumer's channel is open the decision is the one call the
\* outcome asks for, and a nacked message is back at the head of the same
\* queue; on a closed channel no call reaches the broker, which requeued
\* the message when the channel closed, and a delivery whose handler
\* resolved gets ack and then nack.
C39_WhileOpen == [][C39_WhileOpenStep]_vars

\* The handler resolved after the channel closed: ack threw, and the catch
\* block called nack.
C39_BothCalled ==
  \E i \in TsSettled :
    tdlv[i].st = "resolved" /\ ~tdlv[i].up /\ tdlv[i].calls = <<"ack", "nack">>

\* The one message the queue ever held failed in every delivery and waits
\* in the queue again.
C39_Redelivered ==
  /\ pcalls = 0 /\ ~tNoAck
  /\ Len(tdlv) = MaxTsDeliveries
  /\ \A i \in DOMAIN tdlv : tdlv[i].st = "rejected" /\ tdlv[i].reached = <<"nack">>
  /\ tq = <<"1">>

====
